---------------------------- MODULE Spec2Model ----------------------------
(***************************************************************************)
(* A model of the expense tracker: the chat server's tool connection       *)
(* manager and chat service (asyncio tasks, one step per stretch of code   *)
(* between two suspension points), the connection pool, and the service    *)
(* and repository layer over the backing store (one step per store call,   *)
(* the clients being separate processes that share the store).             *)
(***************************************************************************)
EXTENDS Integers, Sequences, FiniteSets, TLC

(***************************************************************************)
(* Bounds of the model.                                                    *)
(***************************************************************************)
NumCallers == 2
MaxToolCalls == 1
MaxSpawn == 2
MaxCloses == 1
PoolSize == 2
NumClients == 2
MaxCategories == 2
MaxTags == 2
MaxTxns == 2

Callers == 1..NumCallers
InitTasks == 1..2
SessionIds == {"s1", "s2"}
\* the messages the callers send, in the order of the calls
Messages == <<"m1", "m2", "m3">>
Replies == {"r1"}
ToolNames == {"create_expense"}
ErrorKinds == {"runtime", "other"}
PoolUsers == 1..(PoolSize + 1)
MaxPoolConns == 2 * PoolSize
MaxScopes == PoolSize + 2
ShutdownRuns == {"init", "ext"}
Clients == 1..NumClients
Names == {"Food", "Rent"}
TagValues == {"work", "trip"}
CategoryIds == 1..MaxCategories
TagIds == 1..MaxTags
TxnIds == 1..MaxTxns

VARIABLES
  \* MCPConnectionManager
  initialized,      \* self._initialized
  session,          \* self.session: 0 is None, t the session opened on transport t
  streams,          \* self.read_stream / self.write_stream: 0 is None
  stdio_context,    \* self._stdio_context
  session_context,  \* self._session_context
  lock,             \* self._lock: 0 is free, c the caller that owns it
  lockWaiters,      \* the lock's FIFO of waiting callers
  spawned,          \* child processes spawned so far
  openTransports,   \* transports (child processes) entered and not exited
  liveSessions,     \* client sessions entered and not exited
  ipc, itp,         \* initialize() tasks: position, the transport the task made
  spc, sctx,        \* the shutdown() task: position, the context it is exiting
  \* GeminiMCPService
  known,            \* the keys of self.conversations
  conversations,    \* self.conversations[s] (<<>> when s is no key)
  pc, sid, msg,     \* send_message tasks: position, session_id, message
  held,             \* the mcp_session get_session() yielded to the task
  ctx,              \* the history handed to chats.create()
  afc,              \* response.automatic_function_calling_history so far
  res,              \* what send_message returned or raised
  fail,             \* the failure the turn met: "none" when it met none
  turns,            \* send_message calls made so far
  closes,           \* close_session / close_all_sessions calls so far
  completed         \* per session: the turns that returned normally since it was opened

mgrVars == <<initialized, session, streams, stdio_context, session_context,
             spawned, openTransports, liveSessions>>
lockVars == <<lock, lockWaiters>>
initVars == <<ipc, itp>>
shutVars == <<spc, sctx>>
convVars == <<known, conversations, completed>>
callVars == <<pc, sid, msg, held, ctx, afc, res, fail, turns>>
chatVars == <<mgrVars, lockVars, initVars, shutVars, convVars, callVars, closes>>


(***************************************************************************)
(* The connection pool: MCPConnectionPool.                                 *)
(***************************************************************************)
VARIABLES
  pool_initialized,   \* self._initialized
  connections,        \* self.connections: the asyncio.Queue, oldest first
  connections_data,   \* self._connections_data: the connections, in creation order
  pool_created,       \* connections created so far
  pool_closed,        \* connections whose session context was exited
  pool_dropped,       \* connections shutdown() removed from _connections_data
  ppc, pidx, pconn,   \* the initialize() task: position, loop index, connection made
  shpc, shk, shconn,  \* shutdown() runs ("init": inside initialize, "ext": called directly)
  gpc, gheld,         \* get_connection() users: position, session held
  gturns, gexc        \* scopes entered so far; whether one ended by an exception

poolVars == <<pool_initialized, connections, connections_data, pool_created,
              pool_closed, pool_dropped, ppc, pidx, pconn, shpc, shk, shconn,
              gpc, gheld, gturns, gexc>>

(***************************************************************************)
(* The backing store and the clients of the service layer.                 *)
(***************************************************************************)
VARIABLES
  categories,         \* table "categories": rows in insertion order, row i has id i
  tags,               \* table "tags": a set of rows
  transactions,       \* table "transactions": a set of rows
  transaction_tags,   \* table "transaction_tags": a set of <<transaction_id, tag_id>>
  nextTag, nextTxn,   \* ids handed out so far for tags and transactions
  cpc,                \* per client: the position inside the operation it runs
  cop,                \* per client: the operation, its arguments and its locals
  cres,               \* per client: the outcome of its last operation
  cret,               \* per client: the id of the row its last operation returned
  tool_response,      \* per client: what the tool it called last answered
  concurrent,         \* whether operations of different clients may overlap
  now                 \* the clock: datetime.now(timezone.utc), in ticks

storeVars == <<categories, tags, transactions, transaction_tags, nextTag, nextTxn,
               cpc, cop, cres, cret, tool_response, concurrent, now>>

\* what no operation of the services writes
envVars == <<concurrent, now>>

vars == <<chatVars, poolVars, storeVars>>

(***************************************************************************)
(* MCPConnectionManager.initialize: four stretches of code, split at the   *)
(* three awaits (entering the stdio context, entering the session context, *)
(* the session handshake). A failing await raises out of initialize; the   *)
(* lifespan of the chat app logs it and goes on.                           *)
(***************************************************************************)
initialize_guard_mutant(i) == FALSE

\* line 29: the early return of a manager that is already initialized
initialize_guard(i) == initialized

initialize(i) ==
  /\ ipc[i] = "idle"
  /\ IF initialize_guard(i)
       THEN /\ ipc' = [ipc EXCEPT ![i] = "done"]
            /\ UNCHANGED <<mgrVars, itp>>
       ELSE /\ spawned < MaxSpawn
            /\ spawned' = spawned + 1
            /\ stdio_context' = spawned + 1
            /\ itp' = [itp EXCEPT ![i] = spawned + 1]
            /\ ipc' = [ipc EXCEPT ![i] = "stdio_enter"]
            /\ UNCHANGED <<initialized, session, streams, session_context,
                           openTransports, liveSessions>>
  /\ UNCHANGED <<lockVars, shutVars, convVars, callVars, closes, poolVars, storeVars>>

initialize_stdio_entered(i) ==
  /\ ipc[i] = "stdio_enter"
  /\ openTransports' = openTransports \cup {itp[i]}
  /\ streams' = itp[i]
  /\ session_context' = itp[i]
  /\ ipc' = [ipc EXCEPT ![i] = "session_enter"]
  /\ UNCHANGED <<initialized, session, stdio_context, spawned, liveSessions, itp>>
  /\ UNCHANGED <<lockVars, shutVars, convVars, callVars, closes, poolVars, storeVars>>

initialize_session_entered(i) ==
  /\ ipc[i] = "session_enter"
  /\ liveSessions' = liveSessions \cup {itp[i]}
  /\ session' = itp[i]
  /\ ipc' = [ipc EXCEPT ![i] = "handshake"]
  /\ UNCHANGED <<initialized, streams, stdio_context, session_context, spawned,
                 openTransports, itp>>
  /\ UNCHANGED <<lockVars, shutVars, convVars, callVars, closes, poolVars, storeVars>>

initialize_handshake_done(i) ==
  /\ ipc[i] = "handshake"
  /\ initialized' = TRUE
  /\ ipc' = [ipc EXCEPT ![i] = "done"]
  /\ UNCHANGED <<session, streams, stdio_context, session_context, spawned,
                 openTransports, liveSessions, itp>>
  /\ UNCHANGED <<lockVars, shutVars, convVars, callVars, closes, poolVars, storeVars>>

\* lines 57-59: the exception of any of the three awaits is logged and raised again
initialize_fails(i) ==
  /\ ipc[i] \in {"stdio_enter", "session_enter", "handshake"}
  /\ ipc' = [ipc EXCEPT ![i] = "failed"]
  /\ UNCHANGED <<mgrVars, itp>>
  /\ UNCHANGED <<lockVars, shutVars, convVars, callVars, closes, poolVars, storeVars>>

(***************************************************************************)
(* MCPConnectionManager.shutdown: split at its two awaits. The except      *)
(* clause logs a failing teardown step and returns.                        *)
(***************************************************************************)
shutdown_finish ==
  /\ initialized' = FALSE
  /\ session' = 0
  /\ streams' = 0
  /\ spc' = "done"

shutdown ==
  /\ spc = "idle"
  /\ IF ~initialized
       THEN /\ spc' = "done"
            /\ UNCHANGED <<mgrVars, sctx>>
       ELSE IF session_context # 0 /\ session # 0
         THEN /\ sctx' = session_context
              /\ spc' = "session_exit"
              /\ UNCHANGED mgrVars
         ELSE IF stdio_context # 0
           THEN /\ sctx' = stdio_context
                /\ spc' = "stdio_exit"
                /\ UNCHANGED mgrVars
           ELSE /\ shutdown_finish
                /\ UNCHANGED <<stdio_context, session_context, spawned,
                               openTransports, liveSessions, sctx>>
  /\ UNCHANGED <<lockVars, initVars, convVars, callVars, closes, poolVars, storeVars>>

shutdown_session_exited ==
  /\ spc = "session_exit"
  /\ liveSessions' = liveSessions \ {sctx}
  /\ IF stdio_context # 0
       THEN /\ sctx' = stdio_context
            /\ spc' = "stdio_exit"
            /\ UNCHANGED <<initialized, session, streams>>
       ELSE /\ shutdown_finish
            /\ UNCHANGED sctx
  /\ UNCHANGED <<stdio_context, session_context, spawned, openTransports>>
  /\ UNCHANGED <<lockVars, initVars, convVars, callVars, closes, poolVars, storeVars>>

shutdown_stdio_exited ==
  /\ spc = "stdio_exit"
  /\ openTransports' = openTransports \ {sctx}
  /\ shutdown_finish
  /\ UNCHANGED <<stdio_context, session_context, spawned, liveSessions, sctx>>
  /\ UNCHANGED <<lockVars, initVars, convVars, callVars, closes, poolVars, storeVars>>

shutdown_fails_mutant ==
  /\ spc \in {"session_exit", "stdio_exit"}
  /\ spc' = "raised"
  /\ UNCHANGED <<mgrVars, sctx>>
  /\ UNCHANGED <<lockVars, initVars, convVars, callVars, closes, poolVars, storeVars>>

shutdown_fails ==
  /\ spc \in {"session_exit", "stdio_exit"}
  /\ spc' = "done"
  /\ UNCHANGED <<mgrVars, sctx>>
  /\ UNCHANGED <<lockVars, initVars, convVars, callVars, closes, poolVars, storeVars>>

(***************************************************************************)
(* MCPConnectionManager.get_session and the asyncio.Lock it holds.         *)
(***************************************************************************)
\* line 90: get_session raises unless the manager is initialized
get_session_raises == ~initialized

lock_is_free_mutant == TRUE

\* asyncio.Lock.acquire returns at once only if the lock is free and nobody waits
lock_is_free == lock = 0 /\ lockWaiters = <<>>

\* asyncio.Lock.release: the lock goes to the longest waiting task, if any
release(c) ==
  IF lock # c
    THEN UNCHANGED lockVars
    ELSE IF lockWaiters = <<>>
      THEN /\ lock' = 0
           /\ UNCHANGED lockWaiters
      ELSE /\ lock' = Head(lockWaiters)
           /\ lockWaiters' = Tail(lockWaiters)

(***************************************************************************)
(* GeminiMCPService: conversions and results.                              *)
(***************************************************************************)
Result(kind, response, fcs, s) ==
  [kind |-> kind, response |-> response, function_calls |-> fcs, session_id |-> s]

NoResult == Result("none", "", <<>>, "")

convert_role_mutant(role) == role

\* lines 134-143: user turns keep their role, assistant turns become "model"
convert_role(role) == IF role = "user" THEN "user" ELSE "model"

RECURSIVE convert_history_to_gemini_format(_)
convert_history_to_gemini_format(history) ==
  IF history = <<>>
    THEN <<>>
    ELSE LET m == Head(history)
             rest == convert_history_to_gemini_format(Tail(history))
         IN IF m.role \in {"user", "assistant"}
              THEN <<[role |-> convert_role(m.role), parts |-> <<[text |-> m.content]>>]>>
                     \o rest
              ELSE rest

\* lines 67-99: the tool-call trail read off the automatic function calling history
RECURSIVE process_function_calls(_)
process_function_calls(history) ==
  IF history = <<>>
    THEN <<>>
    ELSE LET part == Head(history)
             rest == process_function_calls(Tail(history))
         IN IF part.part = "function_call"
              THEN <<[type |-> "call", name |-> part.name]>> \o rest
              ELSE IF part.part = "function_response"
                THEN <<[type |-> "response", result |-> part.result]>> \o rest
                ELSE rest

\* lines 101-110: the two turns appended after a successful exchange
update_history_mutant(history, m, r, fcs) ==
  history \o <<[role |-> "assistant", content |-> r, function_calls |-> fcs]>>

update_history(history, m, r, fcs) ==
  history \o <<[role |-> "user", content |-> m],
               [role |-> "assistant", content |-> r, function_calls |-> fcs]>>

\* lines 118-132: the except clauses. "uninit" is the RuntimeError of get_session,
\* "runtime" any other RuntimeError, "other" and "keyerror" any other Exception.
handle_failure_mutant(kind, s) ==
  Result("apology", "I encountered an error", <<>>, s)

handle_failure(kind, s) ==
  IF kind \in {"uninit", "runtime"}
    THEN IF kind = "uninit"
           THEN Result("not_ready", "Service not ready", <<>>, s)
           ELSE Result("raised", "backend error", <<>>, s)
    ELSE Result("apology", "I encountered an error", <<>>, s)

\* routes/chat.py lines 45-63: what the chat endpoint answers
chat_with_gemini(r) ==
  IF r.kind \in {"ok", "apology"}
    THEN [status |-> 200, body |-> r.response]
    ELSE IF r.kind = "not_ready"
      THEN [status |-> 400, body |-> r.response]
      ELSE [status |-> 500, body |-> "Chat error: backend error"]

(***************************************************************************)
(* GeminiMCPService.send_message, split at its suspension points: waiting  *)
(* for the lock of get_session, and the exchange with the model, which     *)
(* calls the tools through the held session while send_message awaits it.  *)
(***************************************************************************)
usable(t) == t # 0 /\ t \in liveSessions /\ t \in openTransports

tool_calls_made(c) ==
  Len(SelectSeq(afc[c], LAMBDA part : part.part = "function_call"))

\* lines 35-64, up to the first suspension
send_message(c, s, m) ==
  /\ pc[c] = "idle"
  /\ turns < Len(Messages)
  /\ turns' = turns + 1
  /\ sid' = [sid EXCEPT ![c] = s]
  /\ msg' = [msg EXCEPT ![c] = m]
  /\ afc' = [afc EXCEPT ![c] = <<>>]
  /\ known' = known \cup {s}
  /\ conversations' = IF s \in known THEN conversations
                                     ELSE [conversations EXCEPT ![s] = <<>>]
  /\ IF get_session_raises
       THEN /\ pc' = [pc EXCEPT ![c] = "done"]
            /\ res' = [res EXCEPT ![c] = handle_failure("uninit", s)]
            /\ fail' = [fail EXCEPT ![c] = "uninit"]
            /\ UNCHANGED <<lockVars, held, ctx>>
       ELSE /\ res' = [res EXCEPT ![c] = NoResult]
            /\ fail' = [fail EXCEPT ![c] = "none"]
            /\ IF lock_is_free
                 THEN /\ lock' = c
                      /\ held' = [held EXCEPT ![c] = session]
                      /\ ctx' = [ctx EXCEPT ![c] =
                                   convert_history_to_gemini_format(conversations'[s])]
                      /\ pc' = [pc EXCEPT ![c] = "model"]
                      /\ UNCHANGED lockWaiters
                 ELSE /\ lockWaiters' = Append(lockWaiters, c)
                      /\ pc' = [pc EXCEPT ![c] = "wait"]
                      /\ UNCHANGED <<lock, held, ctx>>
  /\ UNCHANGED <<mgrVars, initVars, shutVars, completed, closes, poolVars, storeVars>>

\* lines 47-64 of a caller that waited: the lock was handed to it
get_session_granted(c) ==
  /\ pc[c] = "wait"
  /\ lock = c
  /\ IF sid[c] \in known
       THEN /\ held' = [held EXCEPT ![c] = session]
            /\ ctx' = [ctx EXCEPT ![c] =
                         convert_history_to_gemini_format(conversations[sid[c]])]
            /\ pc' = [pc EXCEPT ![c] = "model"]
            /\ UNCHANGED <<lockVars, res, fail>>
       ELSE \* self.conversations[session_id] raises KeyError inside the scope
            /\ release(c)
            /\ pc' = [pc EXCEPT ![c] = "done"]
            /\ res' = [res EXCEPT ![c] = handle_failure("keyerror", sid[c])]
            /\ fail' = [fail EXCEPT ![c] = "keyerror"]
            /\ UNCHANGED <<held, ctx>>
  /\ UNCHANGED <<sid, msg, afc, turns>>
  /\ UNCHANGED <<mgrVars, initVars, shutVars, convVars, closes, poolVars, storeVars>>

\* inside chat.send_message: the model asks for a tool
model_calls_tool(c, n) ==
  /\ pc[c] = "model"
  /\ tool_calls_made(c) < MaxToolCalls
  /\ afc' = [afc EXCEPT ![c] =
               (IF @ = <<>> THEN <<[part |-> "text"]>> ELSE @)
                 \o <<[part |-> "function_call", name |-> n]>>]
  /\ pc' = [pc EXCEPT ![c] = "tool"]
  /\ UNCHANGED <<sid, msg, held, ctx, res, fail, turns>>
  /\ UNCHANGED <<mgrVars, lockVars, initVars, shutVars, convVars, closes, poolVars, storeVars>>

\* inside chat.send_message: the tool answered over the held session
tool_returns(c) ==
  /\ pc[c] = "tool"
  /\ usable(held[c])
  /\ afc' = [afc EXCEPT ![c] = @ \o <<[part |-> "function_response", result |-> "ok"]>>]
  /\ pc' = [pc EXCEPT ![c] = "model"]
  /\ UNCHANGED <<sid, msg, held, ctx, res, fail, turns>>
  /\ UNCHANGED <<mgrVars, lockVars, initVars, shutVars, convVars, closes, poolVars, storeVars>>

history_key_mutant(c) == "s1"

\* lines 102-110: the history written is the one of the call's own session_id
history_key(c) == sid[c]

\* lines 64-116: the model answered; the scope ends, the history is updated
model_replies(c, r) ==
  /\ pc[c] = "model"
  /\ release(c)
  /\ pc' = [pc EXCEPT ![c] = "done"]
  /\ LET s == history_key(c)
         fcs == process_function_calls(afc[c])
     IN IF s \in known
          THEN /\ conversations' = [conversations EXCEPT ![s] =
                                      update_history(@, msg[c], r, fcs)]
               /\ completed' = [completed EXCEPT ![s] =
                                  Append(@, [message |-> msg[c], response |-> r,
                                             function_calls |-> fcs])]
               /\ res' = [res EXCEPT ![c] = Result("ok", r, fcs, s)]
               /\ UNCHANGED fail
          ELSE \* self.conversations[session_id] raises KeyError
               /\ res' = [res EXCEPT ![c] = handle_failure("keyerror", s)]
               /\ fail' = [fail EXCEPT ![c] = "keyerror"]
               /\ UNCHANGED <<conversations, completed>>
  /\ UNCHANGED <<sid, msg, held, ctx, afc, turns, known>>
  /\ UNCHANGED <<mgrVars, initVars, shutVars, closes, poolVars, storeVars>>

\* the model call or a tool call raises: the scope ends, lines 118-132 decide
exchange_fails(c, kind) ==
  /\ pc[c] \in {"model", "tool"}
  /\ release(c)
  /\ pc' = [pc EXCEPT ![c] = "done"]
  /\ res' = [res EXCEPT ![c] = handle_failure(kind, sid[c])]
  /\ fail' = [fail EXCEPT ![c] = kind]
  /\ UNCHANGED <<sid, msg, held, ctx, afc, turns>>
  /\ UNCHANGED <<mgrVars, initVars, shutVars, convVars, closes, poolVars, storeVars>>

\* the request is answered and its task ends; c may serve another request
request_done(c) ==
  /\ pc[c] = "done"
  /\ pc' = [pc EXCEPT ![c] = "idle"]
  /\ sid' = [sid EXCEPT ![c] = "s1"]
  /\ msg' = [msg EXCEPT ![c] = ""]
  /\ held' = [held EXCEPT ![c] = 0]
  /\ ctx' = [ctx EXCEPT ![c] = <<>>]
  /\ afc' = [afc EXCEPT ![c] = <<>>]
  /\ res' = [res EXCEPT ![c] = NoResult]
  /\ fail' = [fail EXCEPT ![c] = "none"]
  /\ UNCHANGED turns
  /\ UNCHANGED <<mgrVars, lockVars, initVars, shutVars, convVars, closes, poolVars, storeVars>>

\* lines 149-152
close_session(s) ==
  /\ closes < MaxCloses
  /\ closes' = closes + 1
  /\ known' = known \ {s}
  /\ conversations' = [conversations EXCEPT ![s] = <<>>]
  /\ completed' = [completed EXCEPT ![s] = <<>>]
  /\ UNCHANGED <<mgrVars, lockVars, initVars, shutVars, callVars, poolVars, storeVars>>

\* lines 154-156
close_all_sessions ==
  /\ closes < MaxCloses
  /\ closes' = closes + 1
  /\ known' = {}
  /\ conversations' = [s \in SessionIds |-> <<>>]
  /\ completed' = [s \in SessionIds |-> <<>>]
  /\ UNCHANGED <<mgrVars, lockVars, initVars, shutVars, callVars, poolVars, storeVars>>

(***************************************************************************)
(* The chat server: initial state and next-state relation.                 *)
(***************************************************************************)
InitChat ==
  /\ initialized = FALSE
  /\ session = 0
  /\ streams = 0
  /\ stdio_context = 0
  /\ session_context = 0
  /\ lock = 0
  /\ lockWaiters = <<>>
  /\ spawned = 0
  /\ openTransports = {}
  /\ liveSessions = {}
  /\ ipc = [i \in InitTasks |-> "idle"]
  /\ itp = [i \in InitTasks |-> 0]
  /\ spc = "idle"
  /\ sctx = 0
  /\ known = {}
  /\ conversations = [s \in SessionIds |-> <<>>]
  /\ completed = [s \in SessionIds |-> <<>>]
  /\ pc = [c \in Callers |-> "idle"]
  /\ sid = [c \in Callers |-> "s1"]
  /\ msg = [c \in Callers |-> ""]
  /\ held = [c \in Callers |-> 0]
  /\ ctx = [c \in Callers |-> <<>>]
  /\ afc = [c \in Callers |-> <<>>]
  /\ res = [c \in Callers |-> NoResult]
  /\ fail = [c \in Callers |-> "none"]
  /\ turns = 0
  /\ closes = 0

\* The chat app as it runs: the startup of its lifespan calls initialize() once
\* and tolerates its failure; then requests are served. The k-th request carries
\* message k, so that a history shows which turns it holds and in which order.
NextChat ==
  \/ initialize(1)
  \/ initialize_stdio_entered(1)
  \/ initialize_session_entered(1)
  \/ initialize_handshake_done(1)
  \/ initialize_fails(1)
  \/ \E c \in Callers, s \in SessionIds : send_message(c, s, Messages[turns + 1])
  \/ \E c \in Callers : get_session_granted(c)
  \/ \E c \in Callers, n \in ToolNames : model_calls_tool(c, n)
  \/ \E c \in Callers : tool_returns(c)
  \/ \E c \in Callers, r \in Replies : model_replies(c, r)
  \/ \E c \in Callers, kind \in ErrorKinds : exchange_fails(c, kind)
  \/ \E c \in Callers : request_done(c)

(***************************************************************************)
(* MCPConnectionPool. A connection is named by its creation number; its    *)
(* session is the value that travels through the queue. _create_connection *)
(* touches no state of the pool before it returns, so it is one step.      *)
(***************************************************************************)
queue_full == Len(connections) >= PoolSize

poolShutVars == <<shpc, shk, shconn>>
poolUserVars == <<gpc, gheld, gturns, gexc>>

\* lines 120-132: the rest of the loop body after connection k was made, and
\* the loop's end. put() suspends only while the queue is full.
initialize_put(k) ==
  IF queue_full
    THEN /\ ppc' = "put"
         /\ pconn' = k
         /\ UNCHANGED <<connections, pidx, pool_initialized>>
    ELSE /\ connections' = Append(connections, k)
         /\ pconn' = 0
         /\ pidx' = pidx + 1
         /\ IF pidx + 1 = PoolSize
              THEN /\ pool_initialized' = TRUE
                   /\ ppc' = "done"
              ELSE /\ ppc' = "create"
                   /\ UNCHANGED pool_initialized

\* lines 113-122
pool_initialize ==
  /\ ppc \in {"idle", "done", "failed"}
  /\ IF pool_initialized
       THEN /\ ppc' = "done"
            /\ UNCHANGED pidx
       ELSE /\ pool_created < MaxPoolConns
            /\ pidx' = 0
            /\ ppc' = "create"
  /\ UNCHANGED <<pool_initialized, connections, connections_data, pool_created,
                 pool_closed, pool_dropped, pconn, poolShutVars, poolUserVars>>
  /\ UNCHANGED <<chatVars, storeVars>>

\* lines 122-124: _create_connection returned
pool_connection_created ==
  /\ ppc = "create"
  /\ pool_created < MaxPoolConns
  /\ pool_created' = pool_created + 1
  /\ connections_data' = Append(connections_data, pool_created + 1)
  /\ initialize_put(pool_created + 1)
  /\ UNCHANGED <<pool_closed, pool_dropped, poolShutVars, poolUserVars>>
  /\ UNCHANGED <<chatVars, storeVars>>

\* line 124 of a put() that had to wait
pool_put_resumed ==
  /\ ppc = "put"
  /\ ~queue_full
  /\ initialize_put(pconn)
  /\ UNCHANGED <<connections_data, pool_created, pool_closed, pool_dropped,
                 poolShutVars, poolUserVars>>
  /\ UNCHANGED <<chatVars, storeVars>>

(***************************************************************************)
(* MCPConnectionPool.shutdown, run by initialize after a failure ("init")  *)
(* or called directly ("ext"): per connection two awaits, whose exception  *)
(* is logged; then the list is cleared. The queue is not touched.          *)
(***************************************************************************)
\* lines 175-176
shutdown_clear(r) ==
  /\ pool_dropped' = pool_dropped \cup {connections_data[k] : k \in 1..Len(connections_data)}
  /\ connections_data' = <<>>
  /\ pool_initialized' = FALSE
  /\ shpc' = [shpc EXCEPT ![r] = IF r = "init" THEN "idle" ELSE "done"]
  /\ shk' = [shk EXCEPT ![r] = 0]
  /\ shconn' = [shconn EXCEPT ![r] = 0]
  /\ ppc' = IF r = "init" THEN "failed" ELSE ppc

\* line 162: the for loop takes the next element of the list, if there is one
shutdown_next(r, k) ==
  IF k <= Len(connections_data)
    THEN /\ shk' = [shk EXCEPT ![r] = k]
         /\ shconn' = [shconn EXCEPT ![r] = connections_data[k]]
         /\ shpc' = [shpc EXCEPT ![r] = "session_exit"]
         /\ UNCHANGED <<pool_dropped, connections_data, pool_initialized>>
         /\ ppc' = IF r = "init" THEN "shutdown" ELSE ppc
    ELSE shutdown_clear(r)

\* lines 125-128: _create_connection raised; initialize runs shutdown()
pool_connection_fails ==
  /\ ppc = "create"
  /\ shpc["init"] = "idle"
  /\ shutdown_next("init", 1)
  /\ UNCHANGED <<connections, pool_created, pool_closed, pidx, pconn, poolUserVars>>
  /\ UNCHANGED <<chatVars, storeVars>>

\* lines 158-162, called directly
pool_shutdown ==
  /\ shpc["ext"] = "idle"
  /\ pool_created > 0
  /\ shutdown_next("ext", 1)
  /\ UNCHANGED <<connections, pool_created, pool_closed, pidx, pconn, poolUserVars>>
  /\ UNCHANGED <<chatVars, storeVars>>

\* line 166 returned
pool_shutdown_session_exited(r) ==
  /\ shpc[r] = "session_exit"
  /\ pool_closed' = pool_closed \cup {shconn[r]}
  /\ shpc' = [shpc EXCEPT ![r] = "stdio_exit"]
  /\ UNCHANGED <<pool_initialized, connections, connections_data, pool_created,
                 pool_dropped, ppc, pidx, pconn, shk, shconn, poolUserVars>>
  /\ UNCHANGED <<chatVars, storeVars>>

\* line 170 returned, or line 166 or 170 raised (lines 172-173): next connection
pool_shutdown_connection_done(r) ==
  /\ shpc[r] \in {"session_exit", "stdio_exit"}
  /\ shutdown_next(r, shk[r] + 1)
  /\ UNCHANGED <<connections, pool_created, pool_closed, pidx, pconn, poolUserVars>>
  /\ UNCHANGED <<chatVars, storeVars>>

(***************************************************************************)
(* MCPConnectionPool.get_connection. get() suspends only while the queue   *)
(* is empty, put() only while it is full.                                  *)
(***************************************************************************)
returns_session_mutant(how) == how = "normal"

\* lines 186-190: the finally clause puts the session back however the scope ends
returns_session(how) == how \in {"normal", "exception"}

\* lines 181-187
get_connection(u) ==
  /\ gpc[u] = "idle"
  /\ gturns < MaxScopes
  /\ pool_initialized
  /\ gturns' = gturns + 1
  /\ IF connections # <<>>
       THEN /\ gheld' = [gheld EXCEPT ![u] = Head(connections)]
            /\ connections' = Tail(connections)
            /\ gpc' = [gpc EXCEPT ![u] = "using"]
       ELSE /\ gpc' = [gpc EXCEPT ![u] = "get"]
            /\ UNCHANGED <<gheld, connections>>
  /\ UNCHANGED <<pool_initialized, connections_data, pool_created, pool_closed,
                 pool_dropped, ppc, pidx, pconn, poolShutVars, gexc>>
  /\ UNCHANGED <<chatVars, storeVars>>

\* lines 181-182: the pool is not initialized; get_connection raises
get_connection_raises(u) ==
  /\ gpc[u] = "idle"
  /\ gturns < MaxScopes
  /\ ~pool_initialized
  /\ gturns' = gturns + 1
  /\ UNCHANGED <<pool_initialized, connections, connections_data, pool_created,
                 pool_closed, pool_dropped, ppc, pidx, pconn, poolShutVars,
                 gpc, gheld, gexc>>
  /\ UNCHANGED <<chatVars, storeVars>>

\* line 185 of a get() that had to wait
get_connection_resumed(u) ==
  /\ gpc[u] = "get"
  /\ connections # <<>>
  /\ gheld' = [gheld EXCEPT ![u] = Head(connections)]
  /\ connections' = Tail(connections)
  /\ gpc' = [gpc EXCEPT ![u] = "using"]
  /\ UNCHANGED <<pool_initialized, connections_data, pool_created, pool_closed,
                 pool_dropped, ppc, pidx, pconn, poolShutVars, gturns, gexc>>
  /\ UNCHANGED <<chatVars, storeVars>>

\* lines 188-190: the scope of u ends, normally or by an exception
release_connection(u, how) ==
  /\ gpc[u] = "using"
  /\ gexc' = (gexc \/ how = "exception")
  /\ IF returns_session(how)
       THEN IF queue_full
              THEN /\ gpc' = [gpc EXCEPT ![u] = "put"]
                   /\ UNCHANGED <<gheld, connections>>
              ELSE /\ connections' = Append(connections, gheld[u])
                   /\ gheld' = [gheld EXCEPT ![u] = 0]
                   /\ gpc' = [gpc EXCEPT ![u] = "idle"]
       ELSE /\ gheld' = [gheld EXCEPT ![u] = 0]
            /\ gpc' = [gpc EXCEPT ![u] = "idle"]
            /\ UNCHANGED connections
  /\ UNCHANGED <<pool_initialized, connections_data, pool_created, pool_closed,
                 pool_dropped, ppc, pidx, pconn, poolShutVars, gturns>>
  /\ UNCHANGED <<chatVars, storeVars>>

\* line 190 of a put() that had to wait
release_connection_resumed(u) ==
  /\ gpc[u] = "put"
  /\ ~queue_full
  /\ connections' = Append(connections, gheld[u])
  /\ gheld' = [gheld EXCEPT ![u] = 0]
  /\ gpc' = [gpc EXCEPT ![u] = "idle"]
  /\ UNCHANGED <<pool_initialized, connections_data, pool_created, pool_closed,
                 pool_dropped, ppc, pidx, pconn, poolShutVars, gturns, gexc>>
  /\ UNCHANGED <<chatVars, storeVars>>

InitPool ==
  /\ pool_initialized = FALSE
  /\ connections = <<>>
  /\ connections_data = <<>>
  /\ pool_created = 0
  /\ pool_closed = {}
  /\ pool_dropped = {}
  /\ ppc = "idle"
  /\ pidx = 0
  /\ pconn = 0
  /\ shpc = [r \in ShutdownRuns |-> "idle"]
  /\ shk = [r \in ShutdownRuns |-> 0]
  /\ shconn = [r \in ShutdownRuns |-> 0]
  /\ gpc = [u \in PoolUsers |-> "idle"]
  /\ gheld = [u \in PoolUsers |-> 0]
  /\ gturns = 0
  /\ gexc = FALSE

\* The pool from its construction on, as long as nobody calls shutdown() on it:
\* initialize() (which runs shutdown() itself when a connection fails, and may
\* be called again) and the users of get_connection(). No put() that found the
\* queue full resumes here: only get_connection() takes from the queue, and it
\* raises while the pool is not initialized.
NextPool ==
  \/ pool_initialize
  \/ pool_connection_created
  \/ pool_connection_fails
  \/ pool_shutdown_session_exited("init")
  \/ pool_shutdown_connection_done("init")
  \/ \E u \in PoolUsers : get_connection(u)
  \/ \E u \in PoolUsers : get_connection_raises(u)
  \/ \E u \in PoolUsers : get_connection_resumed(u)
  \/ \E u \in PoolUsers, how \in {"normal", "exception"} : release_connection(u, how)

(***************************************************************************)
(* The store and the category service. The repository calls are the store  *)
(* operations; a service operation is one step per repository call. The    *)
(* clients (REST app, tool server, scripts) are processes of their own, so *)
(* between two store calls of one client any call of another may happen    *)
(* when `concurrent` holds.                                                *)
(***************************************************************************)
NoOp == [op |-> "none"]

\* the amount and the tag values of a tool's answer; this one is no answer
NoResponse == [amount |-> 0, tags |-> {}]

may_begin(p) ==
  /\ cpc[p] = "idle"
  /\ concurrent \/ \A q \in Clients \ {p} : cpc[q] = "idle"

\* CategoryRepository.get_category
category_exists(id) == id \in 1..Len(categories)

name_matches_mutant(row, name) == row.name = name /\ row.is_active

\* CategoryRepository.get_category_by_name: .eq("name", name), active or not
name_matches(row, name) == row.name = name

get_category_by_name(name) ==
  {i \in 1..Len(categories) : name_matches(categories[i], name)}

get_categories_mutant(skip, limit, active_only) ==
  SubSeq([i \in 1..Len(categories) |-> i], skip + 1,
         IF skip + limit < Len(categories) THEN skip + limit ELSE Len(categories))

\* CategoryRepository.get_categories: the ids of the rows of the page, the rows
\* filtered on is_active first when active_only is set
get_categories(skip, limit, active_only) ==
  LET ids == [i \in 1..Len(categories) |-> i]
      kept == SelectSeq(ids, LAMBDA i : ~active_only \/ categories[i].is_active)
  IN  SubSeq(kept, skip + 1, IF skip + limit < Len(kept) THEN skip + limit ELSE Len(kept))

insert_category_mutant(rows, row) ==
  IF \E i \in 1..Len(rows) : rows[i].name = row.name THEN rows ELSE Append(rows, row)

\* CategoryRepository.create_category: a plain insert, the id is new
insert_category(rows, row) == Append(rows, row)

\* CategoryRepository.update_category: the fields that are not None
update_data(row, name, active, parent) ==
  [name |-> IF name # "None" THEN name ELSE row.name,
   is_active |-> IF active # "None" THEN active = "true" ELSE row.is_active,
   parent_category_id |-> IF parent # 0 THEN parent ELSE row.parent_category_id]

\* the operation of p returns; cres keeps the outcome of the latest return
replies(p, outcome, id, answer) ==
  /\ cpc' = [cpc EXCEPT ![p] = "idle"]
  /\ cop' = [cop EXCEPT ![p] = NoOp]
  /\ cres' = [q \in Clients |-> IF q = p THEN outcome ELSE "none"]
  /\ cret' = [q \in Clients |-> IF q = p THEN id ELSE 0]
  /\ tool_response' = [q \in Clients |-> IF q = p THEN answer ELSE NoResponse]

returns(p, outcome, id) == replies(p, outcome, id, NoResponse)

\* a return that hands no row back
finish(p, outcome) == returns(p, outcome, 0)

goto(p, at) ==
  /\ cpc' = [cpc EXCEPT ![p] = at]
  /\ UNCHANGED <<cop, cres, cret, tool_response>>

tagTables == <<tags, transactions, transaction_tags, nextTag, nextTxn>>

\* CategoryService.create_category, lines 13-15 and the branch of line 18
create_category(p, name, parent, active) ==
  /\ may_begin(p)
  /\ Len(categories) < MaxCategories
  /\ IF get_category_by_name(name) # {}
       THEN finish(p, "conflict")
       ELSE /\ cop' = [cop EXCEPT ![p] = [op |-> "create_category", name |-> name,
                                          parent |-> parent, active |-> active]]
            /\ cpc' = [cpc EXCEPT ![p] = IF parent # 0 THEN "create_parent"
                                                       ELSE "create_insert"]
            /\ cres' = [cres EXCEPT ![p] = "none"]
            /\ cret' = [cret EXCEPT ![p] = 0]
            /\ tool_response' = [tool_response EXCEPT ![p] = NoResponse]
  /\ UNCHANGED <<categories, tagTables, envVars, chatVars, poolVars>>

create_category_parent_mutant(p) ==
  /\ cpc[p] = "create_parent"
  /\ goto(p, "create_insert")
  /\ UNCHANGED <<categories, tagTables, envVars, chatVars, poolVars>>

\* lines 19-21
create_category_parent(p) ==
  /\ cpc[p] = "create_parent"
  /\ IF category_exists(cop[p].parent)
       THEN goto(p, "create_insert")
       ELSE finish(p, "invalid_reference")
  /\ UNCHANGED <<categories, tagTables, envVars, chatVars, poolVars>>

\* line 23
create_category_insert(p) ==
  /\ cpc[p] = "create_insert"
  /\ Len(categories) < MaxCategories
  /\ categories' = insert_category(categories,
                     [name |-> cop[p].name, is_active |-> cop[p].active,
                      parent_category_id |-> cop[p].parent])
  /\ finish(p, "ok")
  /\ UNCHANGED <<tagTables, envVars, chatVars, poolVars>>

\* CategoryService.update_category, lines 36-41 and the branches that follow
update_category(p, id, name, active, parent) ==
  /\ may_begin(p)
  /\ IF ~category_exists(id)
       THEN finish(p, "not_found")
       ELSE /\ cop' = [cop EXCEPT ![p] = [op |-> "update_category", id |-> id,
                                          name |-> name, active |-> active,
                                          parent |-> parent]]
            /\ cpc' = [cpc EXCEPT ![p] =
                         IF name # "None" /\ name # categories[id].name
                           THEN "update_duplicate"
                           ELSE IF parent # 0 THEN "update_parent" ELSE "update_write"]
            /\ cres' = [cres EXCEPT ![p] = "none"]
            /\ cret' = [cret EXCEPT ![p] = 0]
            /\ tool_response' = [tool_response EXCEPT ![p] = NoResponse]
  /\ UNCHANGED <<categories, tagTables, envVars, chatVars, poolVars>>

\* lines 42-44
update_category_duplicate(p) ==
  /\ cpc[p] = "update_duplicate"
  /\ IF get_category_by_name(cop[p].name) # {}
       THEN finish(p, "conflict")
       ELSE goto(p, IF cop[p].parent # 0 THEN "update_parent" ELSE "update_write")
  /\ UNCHANGED <<categories, tagTables, envVars, chatVars, poolVars>>

\* lines 47-50
update_category_parent(p) ==
  /\ cpc[p] = "update_parent"
  /\ IF category_exists(cop[p].parent)
       THEN goto(p, "update_write")
       ELSE finish(p, "invalid_reference")
  /\ UNCHANGED <<categories, tagTables, envVars, chatVars, poolVars>>

\* line 52: CategoryRepository.update_category
update_category_write(p) ==
  /\ cpc[p] = "update_write"
  /\ categories' = [categories EXCEPT ![cop[p].id] =
                      update_data(@, cop[p].name, cop[p].active, cop[p].parent)]
  /\ finish(p, "ok")
  /\ UNCHANGED <<tagTables, envVars, chatVars, poolVars>>

\* CategoryService.delete_category: the soft delete of the repository
delete_category(p, id) ==
  /\ may_begin(p)
  /\ IF category_exists(id)
       THEN /\ categories' = [categories EXCEPT ![id].is_active = FALSE]
            /\ finish(p, "deleted")
       ELSE /\ finish(p, "not_found")
            /\ UNCHANGED categories
  /\ UNCHANGED <<tagTables, envVars, chatVars, poolVars>>

(***************************************************************************)
(* Tags, transactions and their associations.                              *)
(***************************************************************************)
catTables == <<categories>>

\* TagRepository.get_tag / TransactionRepository.get_transaction
tag_exists(g) == \E row \in tags : row.tag_id = g
transaction_exists(t) == \E row \in transactions : row.transaction_id = t

get_tag_by_value_mutant(value) == {}

\* TagRepository.get_tag_by_value: the rows of the value; the caller is handed
\* the first of the result, whichever the store puts first
get_tag_by_value(value) == {row \in tags : row.value = value}

\* TagRepository.create_tag: a plain insert, the id is new
insert_tag(rows, row) == rows \cup {row}

\* the instants of the clock
Instants == 0..1

\* a datetime: the instant and whether it carries a timezone; tz "None" is None
NoDate == [at |-> 0, tz |-> "None"]

\* TransactionRepository, lines 17-19 and 74-76: a naive datetime is taken as UTC
normalise_date(d) == IF d.tz = "naive" THEN [d EXCEPT !.tz = "utc"] ELSE d

\* a TransactionCreate; amounts are in cents, None is 0, "None" or NoDate
SampleTransaction ==
  [date |-> [at |-> 0, tz |-> "naive"], amount |-> 5000, merchant |-> "Cafe",
   category_id |-> 0, is_recurring |-> FALSE, notes |-> "None"]

transaction_row(t) == CHOOSE row \in transactions : row.transaction_id = t

\* TransactionRepository.create_transaction, lines 13-31: the row that is inserted
new_transaction(id, data, at) ==
  [transaction_id |-> id, date |-> normalise_date(data.date), amount |-> data.amount,
   merchant |-> data.merchant, category_id |-> data.category_id,
   is_recurring |-> data.is_recurring, notes |-> data.notes,
   created_at |-> at, updated_at |-> at]

\* TransactionRepository.create_transaction (and crud.create_transaction)
create_transaction(p, data) ==
  /\ may_begin(p)
  /\ nextTxn < MaxTxns
  /\ nextTxn' = nextTxn + 1
  /\ transactions' = transactions \cup {new_transaction(nextTxn + 1, data, now)}
  /\ returns(p, "ok", nextTxn + 1)
  /\ UNCHANGED <<catTables, tags, transaction_tags, nextTag, envVars, chatVars, poolVars>>

transaction_update_data_mutant(row, upd, at) ==
  [row EXCEPT !.updated_at = at, !.date = normalise_date(upd.date),
              !.amount = upd.amount, !.merchant = upd.merchant,
              !.category_id = upd.category_id,
              !.is_recurring = upd.is_recurring = "true", !.notes = upd.notes]

\* TransactionRepository.update_transaction, lines 71-87: updated_at and the
\* fields of the update that are not None
transaction_update_data(row, upd, at) ==
  [row EXCEPT
     !.updated_at = at,
     !.date = IF upd.date # NoDate THEN normalise_date(upd.date) ELSE @,
     !.amount = IF upd.amount # 0 THEN upd.amount ELSE @,
     !.merchant = IF upd.merchant # "None" THEN upd.merchant ELSE @,
     !.category_id = IF upd.category_id # 0 THEN upd.category_id ELSE @,
     !.is_recurring = IF upd.is_recurring # "None" THEN upd.is_recurring = "true" ELSE @,
     !.notes = IF upd.notes # "None" THEN upd.notes ELSE @]

\* TransactionService.update_transaction, lines 43-46: a category that is given
\* has to exist
update_transaction(p, t, upd) ==
  /\ may_begin(p)
  /\ cop' = [cop EXCEPT ![p] = [op |-> "update_transaction", txn |-> t, update |-> upd]]
  /\ cpc' = [cpc EXCEPT ![p] = IF upd.category_id # 0 THEN "txn_update_category"
                                                      ELSE "txn_update_write"]
  /\ cres' = [cres EXCEPT ![p] = "none"]
  /\ cret' = [cret EXCEPT ![p] = 0]
  /\ tool_response' = [tool_response EXCEPT ![p] = NoResponse]
  /\ UNCHANGED <<catTables, tagTables, envVars, chatVars, poolVars>>

update_transaction_category(p) ==
  /\ cpc[p] = "txn_update_category"
  /\ IF category_exists(cop[p].update.category_id)
       THEN goto(p, "txn_update_write")
       ELSE finish(p, "invalid_reference")
  /\ UNCHANGED <<catTables, tagTables, envVars, chatVars, poolVars>>

\* TransactionRepository.update_transaction, lines 89-92: the rows of the id are
\* updated; no row, no result
update_transaction_write(p) ==
  /\ cpc[p] = "txn_update_write"
  /\ transactions' =
       {IF row.transaction_id = cop[p].txn
          THEN transaction_update_data(row, cop[p].update, now) ELSE row :
        row \in transactions}
  /\ IF transaction_exists(cop[p].txn)
       THEN returns(p, "ok", cop[p].txn)
       ELSE finish(p, "not_found")
  /\ UNCHANGED <<catTables, tags, transaction_tags, nextTag, nextTxn, envVars,
                 chatVars, poolVars>>

\* time passes
tick ==
  /\ now + 1 \in Instants
  /\ now' = now + 1
  /\ UNCHANGED <<categories, tags, transactions, transaction_tags, nextTag, nextTxn,
                 cpc, cop, cres, cret, tool_response, concurrent,
                 chatVars, poolVars>>

\* TransactionRepository.delete_transaction: the row of the transaction only
delete_transaction(p, t) ==
  /\ may_begin(p)
  /\ transactions' = {row \in transactions : row.transaction_id # t}
  /\ finish(p, IF transaction_exists(t) THEN "ok" ELSE "not_found")
  /\ UNCHANGED <<catTables, tags, transaction_tags, nextTag, nextTxn, envVars,
                 chatVars, poolVars>>

\* TagService.create_tag, lines 14-16
create_tag(p, value) ==
  /\ may_begin(p)
  /\ get_tag_by_value(value) # {} \/ nextTag < MaxTags
  /\ IF get_tag_by_value(value) # {}
       THEN finish(p, "conflict")
       ELSE /\ cop' = [cop EXCEPT ![p] = [op |-> "create_tag", value |-> value]]
            /\ cpc' = [cpc EXCEPT ![p] = "tag_insert"]
            /\ cres' = [cres EXCEPT ![p] = "none"]
            /\ cret' = [cret EXCEPT ![p] = 0]
            /\ tool_response' = [tool_response EXCEPT ![p] = NoResponse]
  /\ UNCHANGED <<catTables, tagTables, envVars, chatVars, poolVars>>

\* TagService.get_or_create_tag, lines 59-61
get_or_create_tag(p, value) ==
  /\ may_begin(p)
  /\ get_tag_by_value(value) # {} \/ nextTag < MaxTags
  /\ IF get_tag_by_value(value) # {}
       THEN \E row \in get_tag_by_value(value) : returns(p, "existing", row.tag_id)
       ELSE /\ cop' = [cop EXCEPT ![p] = [op |-> "get_or_create_tag", value |-> value]]
            /\ cpc' = [cpc EXCEPT ![p] = "tag_insert"]
            /\ cres' = [cres EXCEPT ![p] = "none"]
            /\ cret' = [cret EXCEPT ![p] = 0]
            /\ tool_response' = [tool_response EXCEPT ![p] = NoResponse]
  /\ UNCHANGED <<catTables, tagTables, envVars, chatVars, poolVars>>

\* TagService.create_tag line 18, TagService.get_or_create_tag lines 63-64
tag_insert(p) ==
  /\ cpc[p] = "tag_insert"
  /\ nextTag < MaxTags
  /\ nextTag' = nextTag + 1
  /\ tags' = insert_tag(tags, [tag_id |-> nextTag + 1, value |-> cop[p].value])
  /\ returns(p, "ok", nextTag + 1)
  /\ UNCHANGED <<catTables, transactions, transaction_tags, nextTxn, envVars,
                 chatVars, poolVars>>

delete_associations_mutant(g) == {}

\* TagRepository.delete_tag, line 42: .delete().eq("tag_id", tag_id), the rows
\* of transaction_tags that the request deletes
delete_associations(g) == {a \in transaction_tags : a[2] = g}

\* TagRepository.delete_tag, line 42: the associations of the tag go first
delete_tag(p, g) ==
  /\ may_begin(p)
  /\ transaction_tags' = transaction_tags \ delete_associations(g)
  /\ cop' = [cop EXCEPT ![p] = [op |-> "delete_tag", tag |-> g,
                                 removed |-> delete_associations(g)]]
  /\ cpc' = [cpc EXCEPT ![p] = "delete_tag_row"]
  /\ cres' = [cres EXCEPT ![p] = "none"]
  /\ cret' = [cret EXCEPT ![p] = 0]
  /\ tool_response' = [tool_response EXCEPT ![p] = NoResponse]
  /\ UNCHANGED <<catTables, tags, transactions, nextTag, nextTxn, envVars,
                 chatVars, poolVars>>

\* TagRepository.delete_tag, lines 43-44: then the row of the tag
delete_tag_row(p) ==
  /\ cpc[p] = "delete_tag_row"
  /\ tags' = {row \in tags : row.tag_id # cop[p].tag}
  /\ finish(p, IF tag_exists(cop[p].tag) THEN "ok" ELSE "not_found")
  /\ UNCHANGED <<catTables, transactions, transaction_tags, nextTag, nextTxn,
                 envVars, chatVars, poolVars>>

\* TagRepository.add_tag_to_transaction (and crud.add_tag_to_transaction): the
\* insert of the pair, whatever it refers to
insert_transaction_tag(t, g) == transaction_tags \cup {<<t, g>>}

\* api/v1/tags.py add_tag_to_transaction: the REST endpoint inserts the pair
api_add_tag_to_transaction(p, t, g) ==
  /\ may_begin(p)
  /\ transaction_tags' = insert_transaction_tag(t, g)
  /\ finish(p, "ok")
  /\ UNCHANGED <<catTables, tags, transactions, nextTag, nextTxn, envVars,
                 chatVars, poolVars>>

\* TagService.add_tag_to_transaction, lines 39-41: the tag has to exist
add_tag_to_transaction(p, t, g) ==
  /\ may_begin(p)
  /\ IF ~tag_exists(g)
       THEN finish(p, "invalid_reference")
       ELSE /\ cop' = [cop EXCEPT ![p] = [op |-> "add_tag_to_transaction",
                                          txn |-> t, tag |-> g]]
            /\ cpc' = [cpc EXCEPT ![p] = "attach_insert"]
            /\ cres' = [cres EXCEPT ![p] = "none"]
            /\ cret' = [cret EXCEPT ![p] = 0]
            /\ tool_response' = [tool_response EXCEPT ![p] = NoResponse]
  /\ UNCHANGED <<catTables, tagTables, envVars, chatVars, poolVars>>

\* TagService.add_tag_to_transaction, lines 43-47
add_tag_to_transaction_insert(p) ==
  /\ cpc[p] = "attach_insert"
  /\ transaction_tags' = insert_transaction_tag(cop[p].txn, cop[p].tag)
  /\ finish(p, "ok")
  /\ UNCHANGED <<catTables, tags, transactions, nextTag, nextTxn, envVars,
                 chatVars, poolVars>>

\* TransactionService.add_tags_to_transaction, lines 114-116
add_tags_to_transaction(p, t, tag_ids) ==
  /\ may_begin(p)
  /\ IF ~transaction_exists(t)
       THEN finish(p, "not_found")
       ELSE /\ cop' = [cop EXCEPT ![p] = [op |-> "add_tags_to_transaction",
                                          txn |-> t, tag_ids |-> tag_ids]]
            /\ cpc' = [cpc EXCEPT ![p] = "attach_all_get"]
            /\ cres' = [cres EXCEPT ![p] = "none"]
            /\ cret' = [cret EXCEPT ![p] = 0]
            /\ tool_response' = [tool_response EXCEPT ![p] = NoResponse]
  /\ UNCHANGED <<catTables, tagTables, envVars, chatVars, poolVars>>

\* lines 119-121: the next tag id of the list is looked up; unknown ids are skipped
add_tags_to_transaction_get(p) ==
  /\ cpc[p] = "attach_all_get"
  /\ IF cop[p].tag_ids = <<>>
       THEN finish(p, "ok")
       ELSE IF tag_exists(Head(cop[p].tag_ids))
         THEN goto(p, "attach_all_insert")
         ELSE /\ cop' = [cop EXCEPT ![p].tag_ids = Tail(@)]
              /\ UNCHANGED <<cpc, cres, cret, tool_response>>
  /\ UNCHANGED <<catTables, tagTables, envVars, chatVars, poolVars>>

\* lines 122-127
add_tags_to_transaction_insert(p) ==
  /\ cpc[p] = "attach_all_insert"
  /\ transaction_tags' = insert_transaction_tag(cop[p].txn, Head(cop[p].tag_ids))
  /\ cop' = [cop EXCEPT ![p].tag_ids = Tail(@)]
  /\ cpc' = [cpc EXCEPT ![p] = "attach_all_get"]
  /\ UNCHANGED <<cres, cret, tool_response>>
  /\ UNCHANGED <<catTables, tags, transactions, nextTag, nextTxn, envVars,
                 chatVars, poolVars>>

\* TagRepository.remove_tag_from_transaction
remove_tag_from_transaction(p, t, g) ==
  /\ may_begin(p)
  /\ transaction_tags' = transaction_tags \ {<<t, g>>}
  /\ finish(p, IF <<t, g>> \in transaction_tags THEN "ok" ELSE "not_found")
  /\ UNCHANGED <<catTables, tags, transactions, nextTag, nextTxn, envVars,
                 chatVars, poolVars>>

(***************************************************************************)
(* The store: initial state and next-state relations.                      *)
(***************************************************************************)
InitTables ==
  /\ categories = <<>>
  /\ tags = {}
  /\ transactions = {}
  /\ transaction_tags = {}
  /\ nextTag = 0
  /\ nextTxn = 0
  /\ cpc = [p \in Clients |-> "idle"]
  /\ cop = [p \in Clients |-> NoOp]
  /\ cres = [p \in Clients |-> "none"]
  /\ cret = [p \in Clients |-> 0]
  /\ tool_response = [p \in Clients |-> NoResponse]

InitStore == InitTables /\ concurrent = FALSE /\ now = 0

Init == InitChat /\ InitPool /\ InitStore

\* the same, the clients being processes that run at the same time
InitConcurrent == InitChat /\ InitPool /\ InitTables /\ concurrent = TRUE /\ now = 0

ParentArgs == 0..MaxCategories
ActiveArgs == {"None", "true", "false"}
NameArgs == Names \cup {"None"}
TagIdLists == {<<g>> : g \in TagIds} \cup {<<g, h>> : g, h \in TagIds}

\* the category service
NextCat ==
  \/ \E p \in Clients, name \in Names, parent \in ParentArgs, active \in BOOLEAN :
       create_category(p, name, parent, active)
  \/ \E p \in Clients : create_category_parent(p)
  \/ \E p \in Clients : create_category_insert(p)
  \/ \E p \in Clients, id \in CategoryIds, name \in NameArgs, active \in ActiveArgs,
        parent \in ParentArgs : update_category(p, id, name, active, parent)
  \/ \E p \in Clients : update_category_duplicate(p)
  \/ \E p \in Clients : update_category_parent(p)
  \/ \E p \in Clients : update_category_write(p)
  \/ \E p \in Clients, id \in CategoryIds : delete_category(p, id)

\* tags, transactions and associations
NextTag ==
  \/ \E p \in Clients : create_transaction(p, SampleTransaction)
  \/ \E p \in Clients, t \in TxnIds : delete_transaction(p, t)
  \/ \E p \in Clients, value \in TagValues : create_tag(p, value)
  \/ \E p \in Clients, value \in TagValues : get_or_create_tag(p, value)
  \/ \E p \in Clients : tag_insert(p)
  \/ \E p \in Clients, g \in TagIds : delete_tag(p, g)
  \/ \E p \in Clients : delete_tag_row(p)
  \/ \E p \in Clients, t \in TxnIds, g \in TagIds : api_add_tag_to_transaction(p, t, g)
  \/ \E p \in Clients, t \in TxnIds, g \in TagIds : add_tag_to_transaction(p, t, g)
  \/ \E p \in Clients : add_tag_to_transaction_insert(p)
  \/ \E p \in Clients, t \in TxnIds, ids \in TagIdLists : add_tags_to_transaction(p, t, ids)
  \/ \E p \in Clients : add_tags_to_transaction_get(p)
  \/ \E p \in Clients : add_tags_to_transaction_insert(p)
  \/ \E p \in Clients, t \in TxnIds, g \in TagIds : remove_tag_from_transaction(p, t, g)

\* the creations whose uniqueness check is a lookup before the insert
NextCreate ==
  \/ \E p \in Clients, name \in Names : create_category(p, name, 0, TRUE)
  \/ \E p \in Clients : create_category_insert(p)
  \/ \E p \in Clients, value \in TagValues : create_tag(p, value)
  \/ \E p \in Clients, value \in TagValues : get_or_create_tag(p, value)
  \/ \E p \in Clients : tag_insert(p)

SpecChat == Init /\ [][NextChat]_vars
SpecPool == Init /\ [][NextPool]_vars
SpecCat == Init /\ [][NextCat]_vars
SpecTag == Init /\ [][NextTag]_vars
SpecCreate == InitConcurrent /\ [][NextCreate]_vars


(***************************************************************************)
(* Claims about the chat server, checked under SpecChat.                   *)
(***************************************************************************)
InScope(c) == pc[c] \in {"model", "tool"}

\* C1: get_session is mutually exclusive: at most one caller is inside a
\* get_session() scope at any time, the caller inside owns the lock, and a
\* caller that asked for the session while another held it is queued behind the
\* holder (or has just been handed the lock) and is not inside a scope.
C1_MutualExclusion ==
  /\ \A c1, c2 \in Callers : InScope(c1) /\ InScope(c2) => c1 = c2
  /\ \A c \in Callers : InScope(c) => lock = c
  /\ \A c \in Callers :
       pc[c] = "wait" =>
         \/ lock = c
         \/ /\ \E k \in 1..Len(lockWaiters) : lockWaiters[k] = c
            /\ lock # 0
            /\ lock # c

C1_Witness ==
  \E c1, c2 \in Callers : pc[c1] = "model" /\ pc[c2] = "wait" /\ lock = c1

\* C3: a send_message call made while the manager is not initialized ends at
\* once with the "service not ready" error (the chat endpoint answers 400), not
\* with the apologetic reply, and the history of its session is as it was.
C3_NotReady ==
  [][\A c \in Callers :
       (pc[c] = "idle" /\ pc'[c] # "idle" /\ ~initialized) =>
         /\ pc'[c] = "done"
         /\ res'[c] = Result("not_ready", "Service not ready", <<>>, sid'[c])
         /\ chat_with_gemini(res'[c]).status = 400
         /\ conversations'[sid'[c]] = conversations[sid'[c]]
         /\ UNCHANGED lockVars]_vars

C3_Witness ==
  \E c \in Callers :
    /\ pc[c] = "done"
    /\ res[c].kind = "not_ready"
    /\ ipc[1] = "failed"
    /\ conversations[sid[c]] = <<>>

\* C4: a turn that met a failure other than the manager being uninitialized
\* returns the apologetic reply with an empty tool-call trail and its session
\* id, and the chat endpoint answers 200 with that reply.
C4_NoPropagation ==
  \A c \in Callers :
    (pc[c] = "done" /\ fail[c] \in {"runtime", "other", "keyerror"}) =>
      /\ res[c] = Result("apology", "I encountered an error", <<>>, sid[c])
      /\ chat_with_gemini(res[c]).status = 200

RECURSIVE TurnsOf(_)
TurnsOf(log) ==
  IF log = <<>>
    THEN <<>>
    ELSE <<[role |-> "user", content |-> Head(log).message],
           [role |-> "assistant", content |-> Head(log).response,
            function_calls |-> Head(log).function_calls]>> \o TurnsOf(Tail(log))

\* C5: the history of every session id is the sequence of (user turn, assistant
\* turn) pairs of the turns that completed successfully on it, in completion
\* order; a turn that failed has appended nothing.
C5_HistoryPairs ==
  \A s \in SessionIds : conversations[s] = TurnsOf(completed[s])

C5_Witness ==
  \E s \in SessionIds, c \in Callers :
    /\ Len(conversations[s]) >= 4
    /\ conversations[s][1].content # conversations[s][3].content
    /\ pc[c] = "done" /\ sid[c] = s /\ fail[c] # "none"

\* C6 as claimed: a turn on another session id is never kept waiting by a turn
\* that is awaiting the model.
C6_ModelRequestsOverlap ==
  \A c1, c2 \in Callers :
    (sid[c1] # sid[c2] /\ pc[c1] = "model") => pc[c2] # "wait"

\* C6 as amended: the whole exchange with the model runs inside the exclusive
\* scope, so at most one turn is in it at a time; a turn writes only the history
\* of its own session id, and the context it replays is read from that history.
C6_ExchangeExclusiveHistoriesApart ==
  [][/\ \A c1, c2 \in Callers : (InScope(c1) /\ InScope(c2))' => c1 = c2
     /\ \A c \in Callers :
          pc'[c] # pc[c] =>
            /\ \A s \in SessionIds \ {sid[c], sid'[c]} :
                 /\ conversations'[s] = conversations[s]
                 /\ (s \in known') = (s \in known)
            /\ ctx'[c] # ctx[c] /\ pc'[c] = "model" =>
                 ctx'[c] = convert_history_to_gemini_format(conversations[sid'[c]])]_vars

C6_Witness ==
  \E c1, c2 \in Callers :
    /\ sid[c1] # sid[c2]
    /\ pc[c1] = "model"
    /\ pc[c2] = "wait"
    /\ conversations[sid[c1]] # <<>>

(***************************************************************************)
(* Claims about the connection pool, checked under SpecPool.               *)
(***************************************************************************)
PoolIdle == {connections[k] : k \in 1..Len(connections)}
PoolHolders == {u \in PoolUsers : gpc[u] \in {"using", "put"}}
PoolHeld == {gheld[u] : u \in PoolHolders}
PoolMembers == {connections_data[k] : k \in 1..Len(connections_data)}

\* C7: in an initialized pool the idle sessions and the held sessions are
\* exactly the PoolSize pool members, no session is both idle and held or held
\* by two users, no release has to wait, and a user whose get() is blocked on
\* an empty queue is blocked because all PoolSize sessions are held.
C7_PoolConservation ==
  pool_initialized =>
    /\ PoolIdle \cup PoolHeld = PoolMembers
    /\ Cardinality(PoolMembers) = PoolSize
    /\ PoolIdle \cap PoolHeld = {}
    /\ Cardinality(PoolIdle) = Len(connections)
    /\ \A u1, u2 \in PoolHolders : gheld[u1] = gheld[u2] => u1 = u2
    /\ \A u \in PoolUsers : gpc[u] # "put"
    /\ \A u \in PoolUsers :
         (gpc[u] = "get" /\ connections = <<>>) => Cardinality(PoolHeld) = PoolSize

C7_Witness ==
  /\ pool_initialized
  /\ gexc
  /\ Cardinality(PoolHeld) = PoolSize
  /\ \E u \in PoolUsers : gpc[u] = "get"


\* the manager alone: two tasks that call initialize, and a shutdown
NextManager ==
  \/ \E i \in InitTasks : initialize(i)
  \/ \E i \in InitTasks : initialize_stdio_entered(i)
  \/ \E i \in InitTasks : initialize_session_entered(i)
  \/ \E i \in InitTasks : initialize_handshake_done(i)
  \/ \E i \in InitTasks : initialize_fails(i)
  \/ shutdown
  \/ shutdown_session_exited
  \/ shutdown_stdio_exited
  \/ shutdown_fails

SpecManager == Init /\ [][NextManager]_vars

\* C2: a call of initialize on a manager that is initialized returns at once; it
\* spawns no child process and leaves the session, the streams, the contexts and
\* the initialized flag as they were.
C2_InitializeIdempotent ==
  [][\A i \in InitTasks :
       (ipc[i] = "idle" /\ ipc'[i] # "idle" /\ initialized) =>
         /\ ipc'[i] = "done"
         /\ UNCHANGED <<initialized, session, streams, stdio_context, session_context,
                        spawned, openTransports, liveSessions>>]_vars

C2_Witness ==
  /\ \A i \in InitTasks : ipc[i] = "done"
  /\ initialized
  /\ spawned = 1
  /\ session = 1 /\ streams = 1

UniqueCategoryNames ==
  \A i, j \in 1..Len(categories) : categories[i].name = categories[j].name => i = j

\* C8: with the operations of the category service run one at a time, no two
\* category rows, active or not, have the same name, and an operation that is
\* answered with a conflict leaves the table of categories as it was.
C8_UniqueNamesSerial ==
  /\ [](UniqueCategoryNames)
  /\ [][\A p \in Clients : cres'[p] = "conflict" => categories' = categories]_vars

\* a create is refused because of the name of the one, soft-deleted category
C8_Witness ==
  /\ Len(categories) = 1
  /\ ~categories[1].is_active
  /\ \E p \in Clients : cres[p] = "conflict"

\* C9: nothing is looked up again between the lookup and the insert: a create that
\* has passed its lookup adds a row of its name (value), whatever rows the table
\* holds by then, so that overlapping creates leave two rows of one name (value).
C9_InsertAfterLookupUnguarded ==
  [][\A p \in Clients :
       /\ (cpc[p] = "create_insert" /\ cpc'[p] # "create_insert") =>
            /\ Len(categories') = Len(categories) + 1
            /\ categories'[Len(categories')].name = cop[p].name
       /\ (cpc[p] = "tag_insert" /\ cpc'[p] # "tag_insert") =>
            \E row \in tags' \ tags : row.value = cop[p].value]_vars

\* two categories of one name and two tags of one value
C9_Witness ==
  /\ \E i, j \in 1..Len(categories) : i # j /\ categories[i].name = categories[j].name
  /\ \E r1, r2 \in tags : r1 # r2 /\ r1.value = r2.value

\* C10: every pair of transaction_tags names a transaction of the table of
\* transactions and a tag of the table of tags.
C10_AssociationsReferToRows ==
  \A a \in transaction_tags : transaction_exists(a[1]) /\ tag_exists(a[2])

\* TagRepository.get_transaction_tags: the tags joined to the pairs of t
get_transaction_tags(t) == {row \in tags : <<t, row.tag_id>> \in transaction_tags}

\* tags and their associations, as the tag service makes and deletes them
NextTagService ==
  \/ \E p \in Clients : create_transaction(p, SampleTransaction)
  \/ \E p \in Clients, value \in TagValues : create_tag(p, value)
  \/ \E p \in Clients, value \in TagValues : get_or_create_tag(p, value)
  \/ \E p \in Clients : tag_insert(p)
  \/ \E p \in Clients, g \in TagIds : delete_tag(p, g)
  \/ \E p \in Clients : delete_tag_row(p)
  \/ \E p \in Clients, t \in TxnIds, g \in TagIds : add_tag_to_transaction(p, t, g)
  \/ \E p \in Clients : add_tag_to_transaction_insert(p)

SpecTagService == Init /\ [][NextTagService]_vars

\* C11: delete_tag(T) first removes the associations of T, and only those, and
\* then the row of T: when it returns no transaction lists T among its tags, T
\* is not found by id, and the associations of the other tags are as they were.
C11_DeleteTagCascades ==
  [][\A p \in Clients :
       /\ (cpc[p] = "idle" /\ cpc'[p] = "delete_tag_row") =>
            /\ transaction_tags' = {a \in transaction_tags : a[2] # cop'[p].tag}
            /\ tags' = tags
       /\ (cpc[p] = "delete_tag_row" /\ cpc'[p] = "idle") =>
            /\ tags' = {row \in tags : row.tag_id # cop[p].tag}
            /\ transaction_tags' = transaction_tags
            /\ \A a \in transaction_tags' : a[2] # cop[p].tag
            /\ \A t \in TxnIds : \A row \in get_transaction_tags(t)' :
                 row.tag_id # cop[p].tag]_vars

\* the tag being deleted was attached to two transactions, and an association
\* of another tag is left
C11_Witness ==
  \E p \in Clients :
    /\ cpc[p] = "delete_tag_row"
    /\ Cardinality(cop[p].removed) = 2
    /\ \E a \in transaction_tags : a[2] # cop[p].tag /\ tag_exists(a[2])

ParentsResolve ==
  \A i \in 1..Len(categories) :
    categories[i].parent_category_id # 0 =>
      category_exists(categories[i].parent_category_id)

\* C12: every category that has a parent refers to a row of the table of
\* categories, rows are never removed, and an operation that is answered with
\* the invalid-reference error leaves the table as it was.
C12_ParentsResolve ==
  /\ [](ParentsResolve)
  /\ [][/\ Len(categories') >= Len(categories)
        /\ \A p \in Clients :
             cres'[p] = "invalid_reference" => categories' = categories]_vars

\* a create was refused for its parent while a category with a parent exists
C12_Witness ==
  /\ \E p \in Clients : cres[p] = "invalid_reference"
  /\ \E i \in 1..Len(categories) : categories[i].parent_category_id # 0

Listed(page) == {page[k] : k \in 1..Len(page)}

\* C13: delete_category of an existing category changes the is_active flag of
\* its row to false and nothing else: the row is still there under its id, with
\* its name and its parent, every other row is as it was, and no page listed
\* with active_only set contains the category.
C13_SoftDelete ==
  [][\A p \in Clients :
       (cres'[p] = "deleted" /\ UNCHANGED <<cpc, cop>>) =>
         \E id \in 1..Len(categories) :
           /\ categories' = [categories EXCEPT ![id].is_active = FALSE]
           /\ Len(categories') = Len(categories)
           /\ categories'[id].name = categories[id].name
           /\ categories'[id].parent_category_id = categories[id].parent_category_id
           /\ ~categories'[id].is_active
           /\ \A skip \in 0..MaxCategories, limit \in 1..MaxCategories :
                id \notin Listed(get_categories(skip, limit, TRUE))'
           /\ id \in Listed(get_categories(0, MaxCategories, FALSE))']_vars

\* a category with a parent was deleted while another category is active
C13_Witness ==
  \E p \in Clients, id \in 1..Len(categories) :
    /\ cres[p] = "deleted"
    /\ ~categories[id].is_active
    /\ categories[id].parent_category_id # 0
    /\ Listed(get_categories(0, MaxCategories, TRUE)) # {}

\* C14: with calls that do not overlap, no two tags have one value; a call of
\* get_or_create_tag for a value that has a tag returns the id of that tag and
\* leaves the table of tags as it was, and a call that had to insert returns
\* the id of the one row of the value.
C14_GetOrCreateIdempotent ==
  /\ [](\A v \in TagValues : Cardinality(get_tag_by_value(v)) <= 1)
  /\ [][\A p \in Clients, v \in TagValues :
          /\ (get_or_create_tag(p, v) /\ get_tag_by_value(v) # {}) =>
               /\ tags' = tags
               /\ nextTag' = nextTag
               /\ cres'[p] = "existing"
               /\ \E row \in tags : row.value = v /\ row.tag_id = cret'[p]
          /\ (/\ cpc[p] = "tag_insert"
              /\ cop[p] = [op |-> "get_or_create_tag", value |-> v]
              /\ cpc'[p] = "idle") =>
               /\ Cardinality({row \in tags' : row.value = v}) = 1
               /\ \E row \in tags' : row.value = v /\ row.tag_id = cret'[p]]_vars

\* get_or_create_tag was called for the value of the one tag there is
C14_Witness ==
  \E p \in Clients, row \in tags :
    /\ cres[p] = "existing"
    /\ cret[p] = row.tag_id
    /\ Cardinality(tags) = 1
    /\ nextTag = 1

\* the updates tried: the merchant alone, nothing, and every other field at
\* once
TransactionUpdates ==
  {[date |-> NoDate, amount |-> 0, merchant |-> "Shop", category_id |-> 0,
    is_recurring |-> "None", notes |-> "None"],
   [date |-> NoDate, amount |-> 0, merchant |-> "None", category_id |-> 0,
    is_recurring |-> "None", notes |-> "None"],
   [date |-> [at |-> 1, tz |-> "naive"], amount |-> 7500, merchant |-> "None",
    category_id |-> 1, is_recurring |-> "true", notes |-> "lunch"]}

\* transactions created and updated, one category to refer to, and the clock
NextTxn ==
  \/ \E p \in Clients : create_transaction(p, SampleTransaction)
  \/ \E p \in Clients, t \in TxnIds, upd \in TransactionUpdates :
       update_transaction(p, t, upd)
  \/ \E p \in Clients : update_transaction_category(p)
  \/ \E p \in Clients : update_transaction_write(p)
  \/ \E p \in Clients : create_category(p, "Food", 0, TRUE)
  \/ \E p \in Clients : create_category_insert(p)
  \/ tick

SpecTxn == Init /\ [][NextTxn]_vars

\* C15: update_transaction is a partial merge. The write of an update of an
\* existing transaction replaces its row by one in which every field the update
\* supplies has the supplied value (a naive date taken as UTC), updated_at is
\* the present instant, and every other field is as before; every other row
\* is unchanged. The write of an update of an id without a row returns nothing
\* and leaves the table as it was, and so does the category check.
C15_PartialMerge ==
  [][\A p \in Clients :
       /\ (cpc[p] = "txn_update_category" /\ cpc'[p] # cpc[p])
            => transactions' = transactions
       /\ (cpc[p] = "txn_update_write" /\ cpc'[p] # cpc[p]) =>
            LET t == cop[p].txn
                upd == cop[p].update
            IN IF \E row \in transactions : row.transaction_id = t
                 THEN LET old == transaction_row(t)
                      IN /\ cres'[p] = "ok"
                         /\ cret'[p] = t
                         /\ \E new \in transactions' :
                              /\ transactions' = (transactions \ {old}) \cup {new}
                              /\ new.transaction_id = t
                              /\ new.created_at = old.created_at
                              /\ new.updated_at = now
                              /\ new.merchant = IF upd.merchant = "None"
                                                  THEN old.merchant ELSE upd.merchant
                              /\ new.amount = IF upd.amount = 0
                                                THEN old.amount ELSE upd.amount
                              /\ new.notes = IF upd.notes = "None"
                                               THEN old.notes ELSE upd.notes
                              /\ new.category_id = IF upd.category_id = 0
                                                     THEN old.category_id
                                                     ELSE upd.category_id
                              /\ new.is_recurring = CASE upd.is_recurring = "None" -> old.is_recurring
                                                      [] upd.is_recurring = "true" -> TRUE
                                                      [] OTHER -> FALSE
                              /\ new.date = IF upd.date.tz = "None" THEN old.date
                                            ELSE [at |-> upd.date.at, tz |-> "utc"]
                 ELSE /\ cres'[p] = "not_found"
                      /\ transactions' = transactions]_vars

\* an update of the merchant alone has returned: the amount is the one created,
\* and updated_at is later than created_at
C15_Witness ==
  \E p \in Clients, row \in transactions :
    /\ cres[p] = "ok"
    /\ cret[p] = row.transaction_id
    /\ row.merchant = "Shop"
    /\ row.amount = SampleTransaction.amount
    /\ row.notes = "None"
    /\ row.updated_at > row.created_at

(***************************************************************************)
(* The tool server, servers/mcp/tools.py: create_expense. A call is one    *)
(* client operation; its steps are the service calls it makes in turn.     *)
(* CategorizationService is an outside subsystem: each of its calls may    *)
(* raise, and categorize_transaction may name any category or none.        *)
(***************************************************************************)
\* tags_config.py, lines 5-35: the keys of PREDEFINED_TAGS
VALID_TAGS ==
  {"annual-subscription", "monthly-subscription", "quarterly-subscription",
   "recurring", "one-time", "subscription", "business", "personal", "travel",
   "online", "tax-deductible", "reimbursable", "shared", "cash", "credit-card",
   "debit-card", "bank-transfer"}

validate_tags_mutant(tag_values) == TRUE

\* tags_config.py, lines 38-47: no value outside the list
validate_tags(tag_values) ==
  SelectSeq(tag_values, LAMBDA v : v \notin VALID_TAGS) = <<>>

\* str.strip and str.lower on the strings that occur
strip(s) == IF s = " " THEN "" ELSE s

lower(s) == CASE s = "Food" -> "food" [] s = "Rent" -> "rent" [] OTHER -> s

abs(a) == IF a < 0 THEN -a ELSE a

ToSet(s) == {s[i] : i \in 1..Len(s)}

\* the error results of create_expense, by their message
ErrorResults ==
  {"error: merchant", "error: amount", "error: tags", "error: category empty",
   "error: category not found", "error: create", "error: unexpected"}

\* tools.py, lines 80-104 and 109-110: what the checks before the first store
\* call answer; "none" when they all pass
rejects(args) ==
  CASE strip(args.merchant) = "" -> "error: merchant"
    [] args.amount = 0 -> "error: amount"
    [] args.tags # <<>> /\ ~validate_tags(args.tags) -> "error: tags"
    [] args.category_name # "" /\ strip(args.category_name) = ""
         -> "error: category empty"
    [] OTHER -> "none"

find_category_mutant(category_name) == IF categories = <<>> THEN 0 ELSE 1

\* tools.py, lines 114-118: the first active category of the name, whatever the
\* case of the letters; 0 when there is none
find_category(category_name) ==
  LET found == SelectSeq(get_categories(0, 1000, TRUE),
                         LAMBDA i : lower(categories[i].name) = lower(category_name))
  IN  IF found = <<>> THEN 0 ELSE Head(found)

\* the tags that a call with these values may have to create
new_values(tag_values) == {v \in ToSet(tag_values) : get_tag_by_value(v) = {}}

create_expense(p, args) ==
  /\ may_begin(p)
  /\ nextTxn < MaxTxns
  /\ nextTag + Cardinality(new_values(args.tags)) <= MaxTags
  /\ IF rejects(args) # "none"
       THEN finish(p, rejects(args))
       ELSE /\ cop' = [cop EXCEPT ![p] = [op |-> "create_expense", args |-> args,
                                          category_id |-> 0, txn |-> 0,
                                          failed |-> "none", todo |-> args.tags]]
            /\ cpc' = [cpc EXCEPT ![p] = IF args.category_name # ""
                                           THEN "expense_category"
                                           ELSE "expense_create"]
            /\ cres' = [cres EXCEPT ![p] = "none"]
            /\ cret' = [cret EXCEPT ![p] = 0]
            /\ tool_response' = [tool_response EXCEPT ![p] = NoResponse]
  /\ UNCHANGED <<catTables, tagTables, envVars, chatVars, poolVars>>

\* lines 112-120
create_expense_category(p) ==
  /\ cpc[p] = "expense_category"
  /\ IF find_category(cop[p].args.category_name) = 0
       THEN finish(p, "error: category not found")
       ELSE /\ cop' = [cop EXCEPT ![p].category_id =
                                    find_category(cop[p].args.category_name)]
            /\ cpc' = [cpc EXCEPT ![p] = "expense_create"]
            /\ UNCHANGED <<cres, cret, tool_response>>
  /\ UNCHANGED <<catTables, tagTables, envVars, chatVars, poolVars>>

stored_amount_mutant(amount) == amount

\* line 129: Decimal(str(abs(amount)))
stored_amount(amount) == abs(amount)

\* lines 127-134: the TransactionCreate of the call
expense_data(args, category_id) ==
  [date |-> [at |-> now, tz |-> "utc"], amount |-> stored_amount(args.amount),
   merchant |-> strip(args.merchant), category_id |-> category_id,
   is_recurring |-> FALSE, notes |-> "None"]

\* lines 137-141 and TransactionService.create_expense: an amount that is not
\* positive does not make a TransactionCreate, a category that is given has to
\* exist, then the row is inserted
create_expense_create(p) ==
  /\ cpc[p] = "expense_create"
  /\ LET data == expense_data(cop[p].args, cop[p].category_id)
     IN IF data.amount <= 0
          THEN finish(p, "error: unexpected") /\ UNCHANGED <<transactions, nextTxn>>
          ELSE IF data.category_id # 0 /\ ~category_exists(data.category_id)
            THEN finish(p, "error: create") /\ UNCHANGED <<transactions, nextTxn>>
            ELSE /\ nextTxn' = nextTxn + 1
                 /\ transactions' = transactions
                                      \cup {new_transaction(nextTxn + 1, data, now)}
                 /\ cop' = [cop EXCEPT ![p].txn = nextTxn + 1]
                 /\ cpc' = [cpc EXCEPT ![p] = IF data.category_id = 0
                                                THEN "expense_categorize"
                                                ELSE "expense_tags"]
                 /\ UNCHANGED <<cres, cret, tool_response>>
  /\ UNCHANGED <<catTables, tags, transaction_tags, nextTag, envVars, chatVars, poolVars>>

\* the steps of auto-categorization at which the subsystem may fail
CategorizationSteps == {"categorize", "update", "embedding"}

auto_categorize_catches_mutant(step) == step \in {"categorize", "update"}

\* lines 145-181: the try blocks around categorize_transaction (179), the
\* follow-up update (157) and the embedding storage (176)
auto_categorize_catches(step) == step \in {"categorize", "update", "embedding"}

\* lines 144-181: categorize_transaction names a category or none; a category
\* named is written to the transaction, and the embedding is stored. Any of
\* the three may fail.
create_expense_categorize(p) ==
  /\ cpc[p] = "expense_categorize"
  /\ \E failure \in CategorizationSteps \cup {"none"}, cat_id \in 0..MaxCategories :
       LET updates == /\ failure # "categorize"
                      /\ cat_id # 0
                      /\ failure # "update"
                      /\ category_exists(cat_id)
           raised == IF failure = "categorize" THEN "categorize"
                     ELSE IF cat_id = 0 THEN "none"
                     ELSE IF ~updates THEN "update"
                     ELSE failure
           upd == [date |-> NoDate, amount |-> 0, merchant |-> "None",
                   category_id |-> cat_id, is_recurring |-> "None", notes |-> "None"]
       IN /\ transactions' =
               IF updates
                 THEN {IF row.transaction_id = cop[p].txn
                         THEN transaction_update_data(row, upd, now) ELSE row :
                       row \in transactions}
                 ELSE transactions
          /\ IF raised # "none" /\ ~auto_categorize_catches(raised)
               THEN finish(p, "error: unexpected")
               ELSE /\ cop' = [cop EXCEPT ![p].failed = raised]
                    /\ cpc' = [cpc EXCEPT ![p] = "expense_tags"]
                    /\ UNCHANGED <<cres, cret, tool_response>>
  /\ UNCHANGED <<catTables, tags, transaction_tags, nextTag, nextTxn, envVars,
                 chatVars, poolVars>>

\* lines 184-193, and lines 316-318 of update_expense: for the next value,
\* TagService.get_or_create_tag and TagService.add_tag_to_transaction
create_expense_tag(p) ==
  /\ cpc[p] = "expense_tags"
  /\ IF cop[p].todo = <<>>
       THEN /\ cpc' = [cpc EXCEPT ![p] = IF cop[p].op = "create_expense"
                                           THEN "expense_return"
                                           ELSE "expense_update_return"]
            /\ UNCHANGED <<cop, tagTables>>
       ELSE LET v == Head(cop[p].todo)
                fresh == get_tag_by_value(v) = {}
                g == IF fresh THEN nextTag + 1
                     ELSE (CHOOSE row \in get_tag_by_value(v) : TRUE).tag_id
            IN /\ tags' = IF fresh THEN insert_tag(tags, [tag_id |-> g, value |-> v])
                          ELSE tags
               /\ nextTag' = IF fresh THEN nextTag + 1 ELSE nextTag
               /\ transaction_tags' = insert_transaction_tag(cop[p].txn, g)
               /\ cop' = [cop EXCEPT ![p].todo = Tail(@)]
               /\ UNCHANGED <<cpc, transactions, nextTxn>>
  /\ UNCHANGED <<cres, cret, tool_response>>
  /\ UNCHANGED <<catTables, envVars, chatVars, poolVars>>

response_amount_mutant(stored, amount) == stored

\* lines 206-208: float(final_transaction.amount), negated when the amount of
\* the call was negative
response_amount(stored, amount) == IF amount < 0 THEN -stored ELSE stored

\* lines 196-219: the transaction is read back with its tags and answered
create_expense_return(p) ==
  /\ cpc[p] = "expense_return"
  /\ IF transaction_exists(cop[p].txn)
       THEN replies(p, "ok", cop[p].txn,
                    [amount |-> response_amount(transaction_row(cop[p].txn).amount,
                                                cop[p].args.amount),
                     tags |-> {row.value : row \in get_transaction_tags(cop[p].txn)}])
       ELSE finish(p, "error: unexpected")
  /\ UNCHANGED <<catTables, tagTables, envVars, chatVars, poolVars>>

\* the calls tried: the ones that pass the checks on their arguments, and the
\* ones that fail one of them
ExpenseArgs ==
  [amount : {-1250, 4000}, merchant : {"Cafe"},
   category_name : {"", "food", "Misc"}, tags : {<<>>, <<"travel">>}]
  \cup [amount : {-1250}, merchant : {"", " "}, category_name : {""}, tags : {<<>>}]
  \cup [amount : {0}, merchant : {"Cafe"}, category_name : {"food"},
        tags : {<<"travel">>, <<"not-a-real-tag">>}]
  \cup [amount : {4000}, merchant : {"Cafe"}, category_name : {"", " "},
        tags : {<<"not-a-real-tag">>, <<"travel", "not-a-real-tag">>}]

\* create_expense calls, one after the other, and a category to name
NextExpense ==
  \/ \E p \in Clients, args \in ExpenseArgs : create_expense(p, args)
  \/ \E p \in Clients : create_expense_category(p)
  \/ \E p \in Clients : create_expense_create(p)
  \/ \E p \in Clients : create_expense_categorize(p)
  \/ \E p \in Clients : create_expense_tag(p)
  \/ \E p \in Clients : create_expense_return(p)
  \/ \E p \in Clients : create_category(p, "Food", 0, TRUE)
  \/ \E p \in Clients : create_category_insert(p)

SpecExpense == Init /\ [][NextExpense]_vars

\* C16: create_expense rejects invalid input without side effects. A call whose
\* merchant is empty or whitespace, whose amount is zero or one of whose tags is
\* outside the predefined vocabulary returns an error result at once; a call
\* whose category name matches no category returns an error result at the
\* lookup; up to there no transaction, tag or association has been written.
C16_RejectsWithoutEffect ==
  [][\A p \in Clients :
       /\ \A args \in ExpenseArgs :
            create_expense(p, args) =>
              /\ UNCHANGED <<transactions, tags, transaction_tags, nextTag, nextTxn>>
              /\ (\/ args.merchant \in {"", " "}
                  \/ args.amount = 0
                  \/ \E i \in 1..Len(args.tags) : args.tags[i] \notin VALID_TAGS)
                   => cpc'[p] = "idle" /\ cres'[p] \in ErrorResults
       /\ (cpc[p] = "expense_category" /\ cpc'[p] # cpc[p]) =>
            /\ UNCHANGED <<transactions, tags, transaction_tags, nextTag, nextTxn>>
            /\ (~\E i \in 1..Len(categories) :
                   lower(categories[i].name) = lower(cop[p].args.category_name))
                 => cpc'[p] = "idle" /\ cres'[p] \in ErrorResults]_vars

\* a call naming a category that is not there was answered with an error while
\* another category exists
C16_Witness ==
  \E p \in Clients :
    /\ cres[p] = "error: category not found"
    /\ cpc[p] = "idle"
    /\ categories # <<>>

\* C17: expense creation never fails because of the categorization subsystem.
\* A create_expense call without a category name that passed the checks on
\* its arguments answers no error, whichever of categorize_transaction, the
\* follow-up update and the embedding storage failed; once the transaction is
\* created its row stays, and the call returns that transaction.
C17_CategorizationSwallowed ==
  [][\A p \in Clients :
       (cop[p].op = "create_expense" /\ cop[p].args.category_name = "") =>
         /\ cres'[p] \notin ErrorResults
         /\ cpc[p] \in {"expense_categorize", "expense_tags", "expense_return"}
              => \E row \in transactions' : row.transaction_id = cop[p].txn
         /\ cpc[p] = "expense_categorize" /\ cpc'[p] # cpc[p]
              => cpc'[p] = "expense_tags"
         /\ cpc'[p] = "idle" => cres'[p] = "ok" /\ cret'[p] = cop[p].txn]_vars

\* the embedding storage failed after the category was written, and the call
\* goes on to answer
C17_Witness ==
  \E p \in Clients :
    /\ cpc[p] = "expense_return"
    /\ cop[p].failed = "embedding"
    /\ transaction_exists(cop[p].txn)
    /\ transaction_row(cop[p].txn).category_id # 0

existing_associations_mutant(t) == {}

\* tools.py, lines 311-313: the pairs of the tags that get_transaction_tags
\* lists for the transaction
existing_associations(t) == {<<t, row.tag_id>> : row \in get_transaction_tags(t)}

\* lines 270-297: the TransactionUpdate of the call, the category found included
expense_update_data(args, category_id) ==
  [date |-> NoDate,
   amount |-> IF args.amount = <<>> THEN 0 ELSE stored_amount(args.amount[1]),
   merchant |-> IF args.merchant = <<>> THEN "None" ELSE args.merchant[1],
   category_id |-> category_id, is_recurring |-> "None", notes |-> "None"]

\* lines 257-267: the transaction has to exist and the tags to be valid
update_expense(p, t, args) ==
  /\ may_begin(p)
  /\ nextTag + Cardinality(new_values(IF args.tags = <<>> THEN <<>> ELSE args.tags[1]))
       <= MaxTags
  /\ IF ~transaction_exists(t)
       THEN finish(p, "error: transaction not found")
       ELSE IF args.tags # <<>> /\ args.tags[1] # <<>> /\ ~validate_tags(args.tags[1])
         THEN finish(p, "error: tags")
         ELSE /\ cop' = [cop EXCEPT ![p] =
                           [op |-> "update_expense", args |-> args, txn |-> t,
                            todo |-> IF args.tags = <<>> THEN <<>> ELSE args.tags[1]]]
              /\ cpc' = [cpc EXCEPT ![p] = "expense_update_write"]
              /\ cres' = [cres EXCEPT ![p] = "none"]
              /\ cret' = [cret EXCEPT ![p] = 0]
              /\ tool_response' = [tool_response EXCEPT ![p] = NoResponse]
  /\ UNCHANGED <<catTables, tagTables, envVars, chatVars, poolVars>>

\* lines 270-306: the category is looked up, the update is built and, when it
\* has a field, written by TransactionService.update_transaction
update_expense_write(p) ==
  /\ cpc[p] = "expense_update_write"
  /\ LET args == cop[p].args
         category_id == IF args.category_name = <<>> THEN 0
                        ELSE find_category(args.category_name[1])
         upd == expense_update_data(args, category_id)
         empty == args.amount = <<>> /\ args.merchant = <<>> /\ args.category_name = <<>>
     IN IF args.category_name # <<>> /\ category_id = 0
          THEN finish(p, "error: category not found") /\ UNCHANGED transactions
          ELSE IF args.amount # <<>> /\ upd.amount <= 0
            THEN finish(p, "error: unexpected") /\ UNCHANGED transactions
            ELSE /\ transactions' =
                      IF empty THEN transactions
                      ELSE {IF row.transaction_id = cop[p].txn
                              THEN transaction_update_data(row, upd, now) ELSE row :
                            row \in transactions}
                 /\ cpc' = [cpc EXCEPT ![p] = IF args.tags # <<>>
                                                THEN "expense_update_untag"
                                                ELSE "expense_update_return"]
                 /\ UNCHANGED <<cop, cres, cret, tool_response>>
  /\ UNCHANGED <<catTables, tags, transaction_tags, nextTag, nextTxn, envVars,
                 chatVars, poolVars>>

\* lines 309-313: the tags listed for the transaction are removed from it
update_expense_untag(p) ==
  /\ cpc[p] = "expense_update_untag"
  /\ transaction_tags' = transaction_tags \ existing_associations(cop[p].txn)
  /\ goto(p, "expense_tags")
  /\ UNCHANGED <<catTables, tags, transactions, nextTag, nextTxn, envVars,
                 chatVars, poolVars>>

\* lines 321-332: the transaction is read back with its tags and answered; the
\* amount is negated unless an amount that is not negative was given
update_expense_return(p) ==
  /\ cpc[p] = "expense_update_return"
  /\ IF transaction_exists(cop[p].txn)
       THEN replies(p, "ok", cop[p].txn,
                    [amount |-> IF cop[p].args.amount # <<>> /\ cop[p].args.amount[1] >= 0
                                  THEN transaction_row(cop[p].txn).amount
                                  ELSE -transaction_row(cop[p].txn).amount,
                     tags |-> {row.value : row \in get_transaction_tags(cop[p].txn)}])
       ELSE finish(p, "error: unexpected")
  /\ UNCHANGED <<catTables, tagTables, envVars, chatVars, poolVars>>

\* the calls tried: the tags omitted, emptied, set and invalid, and calls for
\* the other fields
ExpenseUpdateArgs ==
  [amount : {<<>>}, merchant : {<<>>}, category_name : {<<>>},
   tags : {<<>>, << <<>> >>, << <<"travel">> >>, << <<"cash">> >>,
           << <<"cash", "travel">> >>, << <<"not-a-real-tag">> >>}]
  \cup [amount : {<<-700>>, <<0>>}, merchant : {<<"Shop">>}, category_name : {<<>>},
        tags : {<<>>}]
  \cup [amount : {<<>>}, merchant : {<<>>}, category_name : {<<"food">>},
        tags : {<< <<"cash">> >>}]

\* the transaction ids the calls are made with
ExpenseIds == {1, 2}

\* update_expense calls, one after the other, on transactions created before
NextUpdateExpense ==
  \/ \E p \in Clients : create_transaction(p, SampleTransaction)
  \/ \E p \in Clients, t \in ExpenseIds, args \in ExpenseUpdateArgs :
       update_expense(p, t, args)
  \/ \E p \in Clients : update_expense_write(p)
  \/ \E p \in Clients : update_expense_untag(p)
  \/ \E p \in Clients : create_expense_tag(p)
  \/ \E p \in Clients : update_expense_return(p)

SpecUpdateExpense == Init /\ [][NextUpdateExpense]_vars

\* C19: update_expense replaces the tags wholesale. In a call with the tags
\* argument (the empty list too) every association the transaction had is
\* removed before the first new one is made, and when the call answers the
\* values attached to the transaction are exactly the requested ones; a call
\* without the argument leaves the associations and the tags as they were.
C19_TagsReplaced ==
  [][\A p \in Clients :
       cop[p].op = "update_expense" =>
         LET t == cop[p].txn
             requested == cop[p].args.tags
         IN /\ requested = <<>> => UNCHANGED <<transaction_tags, tags>>
            /\ (cpc[p] = "expense_update_untag" /\ cpc'[p] # cpc[p]) =>
                 /\ cpc'[p] = "expense_tags"
                 /\ ~\E row \in tags' : <<t, row.tag_id>> \in transaction_tags'
                 /\ \A a \in transaction_tags :
                      a[1] # t => a \in transaction_tags'
            /\ (cpc[p] = "expense_update_return" /\ cpc'[p] # cpc[p]
                  /\ requested # <<>> /\ cres'[p] = "ok") =>
                 /\ {row.value : row \in {r \in tags' : <<t, r.tag_id>> \in transaction_tags'}}
                      = {requested[1][i] : i \in 1..Len(requested[1])}
                 /\ tool_response'[p].tags
                      = {requested[1][i] : i \in 1..Len(requested[1])}
                 /\ cret'[p] = t]_vars

\* the only transaction had the tag travel, and a call with the tags [cash]
\* was answered: cash is attached, travel is a tag of nothing
C19_Witness ==
  \E p \in Clients :
    /\ cres[p] = "ok"
    /\ nextTxn = 1
    /\ tool_response[p].tags = {"cash"}
    /\ \E row \in tags : row.value = "travel"
    /\ {row.value : row \in get_transaction_tags(cret[p])} = {"cash"}
    /\ Cardinality(transaction_tags) = 1

(***************************************************************************)
(* TransactionService.get_spending_summary. The clock counts days. A row   *)
(* read from the store carries the date as it was written, with its zone.  *)
(***************************************************************************)
WeekDays == 7
MonthDays == 30
YearDays == 365

\* lines 58-65: the days of the window of a period
window_days(period) ==
  CASE period = "week" -> WeekDays
    [] period = "month" -> MonthDays
    [] period = "year" -> YearDays
    [] OTHER -> MonthDays

RECURSIVE sum_amounts(_)
sum_amounts(rows) ==
  IF rows = {} THEN 0
  ELSE LET row == CHOOSE r \in rows : TRUE
       IN  row.amount + sum_amounts(rows \ {row})

\* datetime comparison: a naive and an aware datetime do not compare (TypeError)
comparable(a, b) == (a.tz = "naive") = (b.tz = "naive")

\* lines 57 and 68-109: what the call returns, the error it raises included
spending_summary(period, category_id) ==
  LET end_date == [at |-> now, tz |-> "naive"]
      start_date == [at |-> now - window_days(period), tz |-> "naive"]
      fetched == {row \in transactions :
                    category_id = 0 \/ row.category_id = category_id}
      counted == {row \in fetched :
                    start_date.at <= row.date.at /\ row.date.at <= end_date.at}
      named == {row \in counted : row.category_id # 0
                                    /\ category_exists(row.category_id)}
      names == {categories[row.category_id].name : row \in named}
      total == sum_amounts(counted)
      count == Cardinality(counted)
  IN  IF \E row \in fetched : ~comparable(start_date, row.date)
        THEN [error |-> "TypeError"]
        ELSE [error |-> "none",
              total_spent |-> total,
              transaction_count |-> count,
              average_transaction |-> IF count > 0 THEN <<total, count>> ELSE <<0, 1>>,
              category_breakdown |->
                [n \in names |->
                   sum_amounts({row \in named :
                                  categories[row.category_id].name = n})]]

get_spending_summary(p, period, category_id) ==
  /\ may_begin(p)
  /\ LET summary == spending_summary(period, category_id)
     IN  replies(p, IF summary.error = "none" THEN "ok" ELSE summary.error, 0, summary)
  /\ UNCHANGED <<catTables, tagTables, envVars, chatVars, poolVars>>

\* the transactions and the periods tried; the dates are days before the start
\* of the clock
SummaryTransactions ==
  [date : {[at |-> -d, tz |-> "naive"] : d \in {0, WeekDays, MonthDays + 1}},
   amount : {1000, 2000}, merchant : {"Cafe"}, category_id : {0, 1},
   is_recurring : {FALSE}, notes : {"None"}]

Periods == {"week", "month", "year", "decade"}

NextSummary ==
  \/ \E p \in Clients, data \in SummaryTransactions : create_transaction(p, data)
  \/ \E p \in Clients : create_category(p, "Food", 0, TRUE)
  \/ \E p \in Clients : create_category_insert(p)
  \/ \E p \in Clients, period \in Periods, category_id \in 0..1 :
       get_spending_summary(p, period, category_id)
  \/ tick

SpecSummary == Init /\ [][NextSummary]_vars

\* C20: get_spending_summary(period, category) answers the summary of the
\* fetched transactions dated within the window that ends now, of 7 days for
\* week, 365 for year and 30 for month and any other period: their number, the
\* sum of their amounts, the sum over the number (0 for none) and, per category
\* name, the sum of the amounts of that category.
C20_SummaryCounts ==
  [][\A p \in Clients, period \in Periods, category_id \in 0..1 :
       get_spending_summary(p, period, category_id) =>
         LET days == IF period = "week" THEN 7 ELSE IF period = "year" THEN 365 ELSE 30
             counted == {row \in transactions :
                           /\ category_id = 0 \/ row.category_id = category_id
                           /\ now - days <= row.date.at
                           /\ row.date.at <= now}
         IN /\ cres'[p] = "ok"
            /\ tool_response'[p].transaction_count = Cardinality(counted)
            /\ tool_response'[p].total_spent = sum_amounts(counted)
            /\ tool_response'[p].average_transaction
                 = IF counted = {} THEN <<0, 1>>
                   ELSE <<sum_amounts(counted), Cardinality(counted)>>
            /\ \A n \in DOMAIN tool_response'[p].category_breakdown :
                 tool_response'[p].category_breakdown[n]
                   = sum_amounts({row \in counted :
                                    /\ row.category_id \in 1..Len(categories)
                                    /\ categories[row.category_id].name = n})]_vars

\* C23: the context replayed to the model for a turn is the whole recorded
\* history of the session id of the turn, in order: for every turn that
\* completed on it since it was opened, the user message with the role user and
\* then the reply with the role model. A call that waited for the scope while
\* another call on its session id held it replays that call's turn as well.
C23_ContextIsHistory ==
  [][\A c \in Callers :
       (pc[c] \in {"idle", "wait"} /\ pc'[c] = "model") =>
         LET log == completed[sid'[c]]
         IN /\ Len(ctx'[c]) = 2 * Len(log)
            /\ \A k \in 1..Len(log) :
                 /\ ctx'[c][2 * k - 1] = [role |-> "user",
                                          parts |-> <<[text |-> log[k].message]>>]
                 /\ ctx'[c][2 * k] = [role |-> "model",
                                      parts |-> <<[text |-> log[k].response]>>]]_vars

\* a call is in its exchange with the model and replays the turn of a call on
\* the same session id that has just returned
C23_Witness ==
  \E c1, c2 \in Callers :
    /\ c1 # c2
    /\ sid[c1] = sid[c2]
    /\ pc[c1] = "done" /\ res[c1].kind = "ok"
    /\ pc[c2] = "model"
    /\ Len(ctx[c2]) = 2
    /\ ctx[c2][1].parts[1].text = msg[c1]
    /\ ctx[c2][2].role = "model"

\* the chat app with its sessions closed while requests are served
NextChatClose ==
  \/ NextChat
  \/ \E s \in SessionIds : close_session(s)
  \/ close_all_sessions

SpecChatClose == Init /\ [][NextChatClose]_vars

\* C29: a turn the model answered is delivered, whatever close_session or
\* close_all_sessions did in the meantime: send_message returns the reply of
\* the model with the tool-call trail, not the error reply, and the history of
\* its session id is then absent or a sequence of (user, assistant) pairs.
C29_AnsweredTurnDelivered ==
  [][\A c \in Callers, r \in Replies :
       model_replies(c, r) =>
         /\ res'[c] = Result("ok", r, process_function_calls(afc[c]), sid[c])
         /\ \/ sid[c] \notin known'
            \/ /\ Len(conversations'[sid[c]]) % 2 = 0
               /\ \A k \in 1..Len(conversations'[sid[c]]) :
                    conversations'[sid[c]][k].role
                      = IF k % 2 = 1 THEN "user" ELSE "assistant"]_vars

\* main.py lines 13-32, the lifespan of the chat app: the startup awaits
\* initialize() once and goes on when it failed; the shutdown calls shutdown()
\* after that, while requests may still be running
LifespanCallers == {1, 2}

NextLifespan ==
  \/ initialize(1)
  \/ initialize_stdio_entered(1)
  \/ initialize_session_entered(1)
  \/ initialize_handshake_done(1)
  \/ initialize_fails(1)
  \/ \E c \in LifespanCallers, s \in SessionIds : send_message(c, s, Messages[turns + 1])
  \/ \E c \in LifespanCallers : get_session_granted(c)
  \/ \E c \in LifespanCallers, n \in ToolNames : model_calls_tool(c, n)
  \/ \E c \in LifespanCallers : tool_returns(c)
  \/ \E c \in LifespanCallers, r \in Replies : model_replies(c, r)
  \/ \E c \in LifespanCallers, kind \in ErrorKinds : exchange_fails(c, kind)
  \/ \E c \in LifespanCallers : request_done(c)
  \/ ipc[1] \in {"done", "failed"} /\ shutdown
  \/ shutdown_session_exited
  \/ shutdown_stdio_exited
  \/ shutdown_fails

SpecLifespan == Init /\ [][NextLifespan]_vars

\* C24: shutdown of an initialized manager exits the session context first and
\* the transport context only after it, closes a transport only in that second
\* step, and returns normally also when one of the two steps raises.
C24_ShutdownSessionFirst ==
  /\ [](spc # "raised")
  /\ [][/\ (spc = "idle" /\ spc' # "idle" /\ initialized) =>
             spc' = "session_exit" /\ sctx' = session
        /\ (spc # "stdio_exit" /\ spc' = "stdio_exit") =>
             spc = "session_exit" /\ sctx \notin liveSessions'
        /\ (spc' # spc /\ openTransports' # openTransports) => spc = "stdio_exit"
        /\ (spc \in {"session_exit", "stdio_exit"} /\ spc' # spc) =>
             spc' \in {"stdio_exit", "done"}]_vars

\* the session was exited, the exit of the transport raised, and shutdown
\* has returned
C24_Witness ==
  /\ spc = "done"
  /\ initialized
  /\ sctx # 0
  /\ sctx \notin liveSessions
  /\ sctx \in openTransports

\* C26: under any interleaving of get_session() callers with shutdown(), the
\* session a caller holds inside its get_session() scope is not None and is
\* not torn down: its session and its transport are still open.
C26_HeldSessionUsable ==
  \A c \in LifespanCallers : pc[c] \in {"model", "tool"} => usable(held[c])

\* C27: no child process is leaked: when shutdown() returns, every transport
\* opened by an earlier initialize() call on the manager has been closed, also
\* when an initialize() failed after it opened the transport, when two
\* initialize() calls overlapped, and when the session teardown step failed.
C27_NoTransportLeaked ==
  [][(spc # "done" /\ spc' = "done") => openTransports' = {}]_vars

\* The pool with shutdown() called directly on it, once, at any moment. A put()
\* that found the queue full resumes when a user took a session meanwhile.
NextPoolShutdown ==
  \/ NextPool
  \/ pool_shutdown
  \/ pool_shutdown_session_exited("ext")
  \/ pool_shutdown_connection_done("ext")
  \/ pool_put_resumed
  \/ \E u \in PoolUsers : release_connection_resumed(u)

SpecPoolShutdown == Init /\ [][NextPoolShutdown]_vars

\* C28: the pool recovers from shutdown: once shutdown() has returned (called
\* directly or by a failed initialize()), the idle queue holds no torn-down
\* session, and an initialize() that returns normally leaves exactly pool_size
\* live sessions in the queue.
C28_PoolRecovers ==
  /\ []((shpc["ext"] = "done" \/ ppc = "failed") =>
          \A k \in 1..Len(connections) : connections[k] \notin pool_closed)
  /\ [][(ppc # "done" /\ ppc' = "done") =>
          /\ Len(connections') = PoolSize
          /\ \A k \in 1..PoolSize : connections'[k] \notin pool_closed']_vars

\* CategoryService.get_category_hierarchy, lines 58-83: the active categories
\* without a parent, each with the active categories whose parent it is
get_category_hierarchy ==
  LET all_categories == get_categories(0, 1000, TRUE)
      roots == SelectSeq(all_categories, LAMBDA i : categories[i].parent_category_id = 0)
      children(r) == SelectSeq(all_categories, LAMBDA j : categories[j].parent_category_id = r)
  IN  [k \in 1..Len(roots) |->
         [category_id |-> roots[k],
          name |-> categories[roots[k]].name,
          children |-> [j \in 1..Len(children(roots[k])) |->
                          [category_id |-> children(roots[k])[j],
                           name |-> categories[children(roots[k])[j]].name]]]]

\* the number of places of the hierarchy at which category i stands
occurrences(hierarchy, i) ==
  Cardinality({k \in 1..Len(hierarchy) : hierarchy[k].category_id = i})
  + Cardinality({kj \in (1..Len(hierarchy)) \X (1..MaxCategories) :
                   /\ kj[2] <= Len(hierarchy[kj[1]].children)
                   /\ hierarchy[kj[1]].children[kj[2]].category_id = i})

\* C30: after any sequence of category create, update and soft-delete
\* operations every active category stands exactly once in the result of
\* get_category_hierarchy, as a root or as a child of its parent.
C30_HierarchyComplete ==
  \A i \in 1..Len(categories) :
    categories[i].is_active => occurrences(get_category_hierarchy, i) = 1

(***************************************************************************)
(* FreeCategorizationService. A similarity and a confidence are counted in *)
(* hundredths; a confidence that is a quotient is the pair of its terms.   *)
(* The similar transactions come from the stored function, most similar    *)
(* first.                                                                  *)
(***************************************************************************)
\* lines 146-175: the rule table, in its order
rules ==
  <<[keywords |-> {"restaurant", "cafe", "coffee", "starbucks", "pizza", "burger", "food"},
     category_name |-> "Food & Dining", confidence |-> 80],
    [keywords |-> {"swiggy", "zomato", "uber eats"},
     category_name |-> "Food & Dining", confidence |-> 90],
    [keywords |-> {"uber", "ola", "taxi", "cab", "lyft"},
     category_name |-> "Transportation", confidence |-> 90],
    [keywords |-> {"petrol", "fuel", "gas station", "indian oil", "bharat petroleum"},
     category_name |-> "Transportation", confidence |-> 85],
    [keywords |-> {"amazon", "flipkart", "myntra", "ajio", "store", "mart", "mall"},
     category_name |-> "Shopping", confidence |-> 80],
    [keywords |-> {"electricity", "water", "gas", "internet", "broadband", "mobile", "phone"},
     category_name |-> "Bills & Utilities", confidence |-> 90],
    [keywords |-> {"netflix", "spotify", "prime video", "hotstar", "movie", "cinema"},
     category_name |-> "Entertainment", confidence |-> 90],
    [keywords |-> {"pharmacy", "medical", "doctor", "hospital", "clinic", "medicine", "lab",
                   "labs", "test", "covid", "diagnostic", "scan", "xray", "x-ray"},
     category_name |-> "Health & Wellness", confidence |-> 85],
    [keywords |-> {"gym", "fitness", "yoga"},
     category_name |-> "Health & Wellness", confidence |-> 80]>>

\* line 143: transaction.merchant.lower(), "" for no merchant, on the merchants
\* that occur
merchant_lower(merchant) ==
  CASE merchant = "Uber Technologies" -> "uber technologies"
    [] merchant = "Uber Eats" -> "uber eats"
    [] merchant = "None" -> ""
    [] OTHER -> merchant

\* Python's `keyword in text` on strings
contains(keyword, text) ==
  \E i \in 1..(Len(text) - Len(keyword) + 1) :
    SubSeq(text, i, i + Len(keyword) - 1) = keyword

\* line 179
rule_matches(rule, text) == \E keyword \in rule.keywords : contains(keyword, text)

NoCategory == [category_id |-> 0, category_name |-> "None", confidence |-> <<0, 100>>]

rule_based_categorization_mutant(merchant) ==
  LET all_categories == get_categories(0, 1000, TRUE)
      named(r) == SelectSeq(all_categories, LAMBDA i : categories[i].name = rules[r].category_name)
      hits == SelectSeq([r \in 1..Len(rules) |-> r],
                        LAMBDA r : rule_matches(rules[r], merchant_lower(merchant))
                                     /\ named(r) # <<>>)
  IN  IF hits = <<>>
        THEN NoCategory
        ELSE [category_id |-> Head(named(hits[Len(hits)])),
              category_name |-> rules[hits[Len(hits)]].category_name,
              confidence |-> <<rules[hits[Len(hits)]].confidence, 100>>]

\* lines 178-189: every rule with a keyword in the merchant is tried in table
\* order; a rule returns when a listed category bears its name, else the loop
\* goes on with the next rule
rule_based_categorization(merchant) ==
  LET all_categories == get_categories(0, 1000, TRUE)
      named(r) == SelectSeq(all_categories, LAMBDA i : categories[i].name = rules[r].category_name)
      hits == SelectSeq([r \in 1..Len(rules) |-> r],
                        LAMBDA r : rule_matches(rules[r], merchant_lower(merchant))
                                     /\ named(r) # <<>>)
  IN  IF hits = <<>>
        THEN NoCategory
        ELSE [category_id |-> Head(named(Head(hits))),
              category_name |-> rules[Head(hits)].category_name,
              confidence |-> <<rules[Head(hits)].confidence, 100>>]

RECURSIVE sum_scores(_)
sum_scores(txs) ==
  IF txs = <<>> THEN 0 ELSE Head(txs).similarity_score + sum_scores(Tail(txs))

\* lines 95-110: the weight of a category name among the similar transactions
vote_weight(similar_transactions, name) ==
  sum_scores(SelectSeq(similar_transactions,
                       LAMBDA tx : tx.confirmed_category_name = name))

\* lines 58-134
categorization(merchant, similar_transactions) ==
  IF similar_transactions = <<>>
    THEN rule_based_categorization(merchant)
    ELSE IF similar_transactions[1].similarity_score >= 85
      THEN [category_id |-> similar_transactions[1].confirmed_category_id,
            category_name |-> similar_transactions[1].confirmed_category_name,
            confidence |-> <<similar_transactions[1].similarity_score, 100>>]
      ELSE LET total_weight == sum_scores(similar_transactions)
               weight(k) == vote_weight(similar_transactions,
                                        similar_transactions[k].confirmed_category_name)
               \* max() keeps the first of the names of the largest weight, the
               \* names standing in the order of their first transaction
               best == CHOOSE k \in 1..Len(similar_transactions) :
                         /\ \A j \in 1..Len(similar_transactions) : weight(j) <= weight(k)
                         /\ \A j \in 1..(k - 1) : weight(j) < weight(k)
           IN  IF 2 * weight(best) < total_weight
                 THEN rule_based_categorization(merchant)
                 ELSE [category_id |-> similar_transactions[best].confirmed_category_id,
                       category_name |-> similar_transactions[best].confirmed_category_name,
                       confidence |-> <<weight(best), total_weight>>]

categorize_transaction(p, merchant, similar_transactions) ==
  /\ may_begin(p)
  /\ replies(p, "categorized", 0,
             [merchant |-> merchant, similar_transactions |-> similar_transactions,
              result |-> categorization(merchant, similar_transactions)])
  /\ UNCHANGED <<catTables, tagTables, envVars, chatVars, poolVars>>

\* the merchants, the category names and the similar transactions tried: one,
\* or up to three below the cutoff, most similar first, of similarities 0.70,
\* 0.84 and 0.85
Merchants == {"Uber Technologies", "Uber Eats", "None"}
RuleCategories == {"Food & Dining", "Transportation"}
SimilarOnes ==
  [similarity_score : {70, 84, 85},
   confirmed_category_name : {"Food & Dining", "Transportation", "Shopping"},
   confirmed_category_id : {1}]
SimilarLists ==
  {<<>>} \cup {<<a>> : a \in SimilarOnes}
         \cup {l \in {<<a, b>> : a, b \in SimilarOnes} :
                 /\ l[1].similarity_score = 84
                 /\ l[2].similarity_score <= 84}
         \cup {l \in {<<a, b, c>> : a, b, c \in SimilarOnes} :
                 /\ l[1].similarity_score = 84
                 /\ l[2].similarity_score = 70
                 /\ l[3].similarity_score = 70}

NextCategorize ==
  \/ \E p \in Clients, name \in RuleCategories : create_category(p, name, 0, TRUE)
  \/ \E p \in Clients : create_category_insert(p)
  \/ \E merchant \in Merchants, similar_transactions \in SimilarLists :
       categorize_transaction(1, merchant, similar_transactions)

SpecCategorize == Init /\ [][NextCategorize]_vars

\* C21, as stated: categorize_transaction follows the fallback chain. With no similar
\* transactions the result is the category and confidence of the first rule in
\* table order that has a keyword in the lowercased merchant; with a most
\* similar transaction of similarity 0.85 or more it is that transaction's
\* category with the similarity as confidence; otherwise it is the category of
\* the largest summed similarity with confidence weight / total weight, unless
\* that is below 0.5, when it is the rule-based result again.
C21_FallbackChain ==
  \A p \in Clients :
    cres[p] = "categorized" =>
      LET call == tool_response[p]
          similar == call.similar_transactions
          result == call.result
          matching == {r \in 1..Len(rules) : rule_matches(rules[r], merchant_lower(call.merchant))}
          first == CHOOSE r \in matching : \A q \in matching : r <= q
          rule_based == matching # {} =>
                          /\ result.category_name = rules[first].category_name
                          /\ result.confidence = <<rules[first].confidence, 100>>
          names == {similar[k].confirmed_category_name : k \in 1..Len(similar)}
          largest == {n \in names : \A m \in names :
                        vote_weight(similar, m) <= vote_weight(similar, n)}
      IN  IF similar = <<>>
            THEN rule_based
            ELSE IF similar[1].similarity_score >= 85
              THEN /\ result.category_name = similar[1].confirmed_category_name
                   /\ result.confidence = <<similar[1].similarity_score, 100>>
              ELSE IF \A n \in largest : 2 * vote_weight(similar, n) < sum_scores(similar)
                THEN rule_based
                ELSE /\ result.category_name \in largest
                     /\ result.confidence = <<vote_weight(similar, result.category_name),
                                              sum_scores(similar)>>

\* C21, amended: the rule-based result is that of the first rule in table
\* order that has a keyword in the lowercased merchant and whose category name
\* is borne by a listed category, and no category with confidence 0.0 when no
\* rule is such; the rest of the chain is as stated.
C21_FallbackChainListed ==
  \A p \in Clients :
    cres[p] = "categorized" =>
      LET call == tool_response[p]
          similar == call.similar_transactions
          result == call.result
          listed(name) == \E i \in 1..Len(categories) :
                            categories[i].is_active /\ categories[i].name = name
          matching == {r \in 1..Len(rules) :
                         /\ rule_matches(rules[r], merchant_lower(call.merchant))
                         /\ listed(rules[r].category_name)}
          first == CHOOSE r \in matching : \A q \in matching : r <= q
          rule_based == IF matching = {}
                          THEN result = NoCategory
                          ELSE /\ result.category_name = rules[first].category_name
                               /\ result.confidence = <<rules[first].confidence, 100>>
                               /\ category_exists(result.category_id)
                               /\ categories[result.category_id].name = result.category_name
          names == {similar[k].confirmed_category_name : k \in 1..Len(similar)}
          largest == {n \in names : \A m \in names :
                        vote_weight(similar, m) <= vote_weight(similar, n)}
      IN  IF similar = <<>>
            THEN rule_based
            ELSE IF similar[1].similarity_score >= 85
              THEN /\ result.category_name = similar[1].confirmed_category_name
                   /\ result.confidence = <<similar[1].similarity_score, 100>>
              ELSE IF \A n \in largest : 2 * vote_weight(similar, n) < sum_scores(similar)
                THEN rule_based
                ELSE /\ result.category_name \in largest
                     /\ result.confidence = <<vote_weight(similar, result.category_name),
                                              sum_scores(similar)>>

\* a vote of three categories is discarded and the rule of "uber" answers
C21_Witness ==
  \E p \in Clients :
    /\ cres[p] = "categorized"
    /\ tool_response[p].merchant = "Uber Technologies"
    /\ Len(tool_response[p].similar_transactions) = 3
    /\ tool_response[p].result.category_name = "Transportation"
    /\ tool_response[p].result.confidence = <<90, 100>>

(***************************************************************************)
(* SupabaseAuthService.verify_token. A token is its number of segments,    *)
(* the length of its payload segment, what that segment holds and its      *)
(* signature; a field of the payload is its JSON type and its value. The   *)
(* fields role, iat and iss are copied like aud and are left out.          *)
(***************************************************************************)
Missing == [kind |-> "missing", text |-> "", number |-> 0]
Text(text) == [kind |-> "str", text |-> text, number |-> 0]
Number(number) == [kind |-> "int", text |-> "", number |-> number]

\* datetime.now(timezone.utc).timestamp(): a positive number of seconds
timestamp == now + 1

\* lines 112-113: base64.urlsafe_b64decode of the segment padded with
\* 4 - len % 4 signs: the
\* decoder wants the padding that completes the last group of 4, ignores more
\* of it, and fails on a last group of one character
b64decodable(length) ==
  LET supplied == 4 - (length % 4)
      needed == (4 - (length % 4)) % 4
  IN  (length % 4) # 1 /\ supplied >= needed

\* Python's truth value of payload.get(field)
truthy(field) ==
  CASE field.kind = "missing" -> FALSE
    [] field.kind = "str" -> field.text # ""
    [] field.kind = "int" -> field.number # 0
    [] OTHER -> TRUE

token_expired_mutant(exp) == exp <= timestamp

\* line 127
token_expired(exp) == exp < timestamp

\* pydantic's validation of UserInfo: id is a str, email, aud and sub are str or
\* None, exp is an int or None
valid_user_info(payload) ==
  /\ payload.sub.kind = "str"
  /\ payload.email.kind \in {"str", "missing"}
  /\ payload.aud.kind \in {"str", "missing"}
  /\ payload.exp.kind \in {"int", "missing"}

Unauthorized(detail) == [status |-> 401, detail |-> detail]

\* lines 93-151
verified(token) ==
  IF token.segments # 3
    THEN Unauthorized("Invalid token format")
    ELSE IF ~b64decodable(token.payload_length) \/ token.payload.json # "object"
      THEN Unauthorized("Token verification failed")
      ELSE LET payload == token.payload
               exp == IF payload.exp.kind = "missing" THEN 0 ELSE payload.exp.number
           IN  IF ~truthy(payload.sub) \/ ~truthy(payload.email)
                 THEN Unauthorized("Invalid token payload")
                 ELSE IF payload.exp.kind = "str"
                   THEN Unauthorized("Token verification failed")
                   ELSE IF token_expired(exp)
                     THEN Unauthorized("Token expired")
                     ELSE IF ~valid_user_info(payload)
                       THEN Unauthorized("Token verification failed")
                       ELSE [status |-> 200,
                             id |-> payload.sub.text,
                             email |-> payload.email.text,
                             aud |-> payload.aud,
                             exp |-> exp,
                             sub |-> payload.sub.text]

verify_token(p, token) ==
  /\ may_begin(p)
  /\ replies(p, "verify_token", 0,
             [token |-> token, at |-> timestamp, result |-> verified(token)])
  /\ UNCHANGED <<catTables, tagTables, envVars, chatVars, poolVars>>

\* the tokens tried: the payloads of a subject, an email, an expiry and an
\* audience of every kind, and the tokens that do not decode
Payloads ==
  [json : {"object"},
   sub : {Missing, Text(""), Text("u1"), Number(7)},
   email : {Missing, Text("a@b.c")},
   exp : {Missing, Text("soon")} \cup {Number(t) : t \in 0..2},
   aud : {Missing, Text("authenticated"), [kind |-> "list", text |-> "", number |-> 0]}]

GoodPayload ==
  [json |-> "object", sub |-> Text("u1"), email |-> Text("a@b.c"), exp |-> Number(2),
   aud |-> Text("authenticated")]

Tokens ==
  [segments : {3}, payload_length : {44}, payload : Payloads,
   signature : {"valid", "forged"}]
  \cup [segments : {2, 4}, payload_length : {44}, payload : {GoodPayload},
        signature : {"valid", "forged"}]
  \cup [segments : {3}, payload_length : {45, 46, 47}, payload : {GoodPayload},
        signature : {"valid", "forged"}]
  \cup [segments : {3}, payload_length : {44},
        payload : {[GoodPayload EXCEPT !.json = j] : j \in {"garbage", "array"}},
        signature : {"valid", "forged"}]

NextVerify ==
  \/ \E token \in Tokens : verify_token(1, token)
  \/ tick

SpecVerify == Init /\ [][NextVerify]_vars

\* a payload lacks a field that is absent or empty
lacks(field) == field.kind = "missing" \/ (field.kind = "str" /\ field.text = "")

\* the token with the other signature
resigned(token) ==
  [token EXCEPT !.signature = IF @ = "valid" THEN "forged" ELSE "valid"]

DEFAULT_CATEGORIES ==
  <<[name |-> "Food & Dining", subcategories |-> <<"Groceries">>],
    [name |-> "Transportation", subcategories |-> <<"Gas & Fuel">>]>>

\* the run goes on with group g, or ends after the last group
upload_group(p, run, g) ==
  IF g > Len(DEFAULT_CATEGORIES)
    THEN finish(p, "uploaded")
    ELSE /\ cop' = [cop EXCEPT ![p] = [run EXCEPT !.group = g, !.sub = 1]]
         /\ cpc' = [cpc EXCEPT ![p] = "upload_parent"]
         /\ UNCHANGED <<cres, cret, tool_response>>

\* the run goes on with subcategory k of its group, or with the next group
upload_sub(p, run, k) ==
  IF k > Len(DEFAULT_CATEGORIES[run.group].subcategories)
    THEN upload_group(p, run, run.group + 1)
    ELSE /\ cop' = [cop EXCEPT ![p] = [run EXCEPT !.sub = k]]
         /\ cpc' = [cpc EXCEPT ![p] = "upload_sub"]
         /\ UNCHANGED <<cres, cret, tool_response>>

\* lines 36-42 and check_existing_categories, lines 26-33
upload_hierarchical_categories(p) ==
  /\ may_begin(p)
  /\ cop' = [cop EXCEPT ![p] =
               [op |-> "upload", group |-> 1, sub |-> 1,
                existing_categories |-> {categories[i].name : i \in 1..Len(categories)},
                parent_map |-> [g \in 1..Len(DEFAULT_CATEGORIES) |-> 0]]]
  /\ cpc' = [cpc EXCEPT ![p] = "upload_parent"]
  /\ cres' = [cres EXCEPT ![p] = "none"]
  /\ cret' = [cret EXCEPT ![p] = 0]
  /\ tool_response' = [tool_response EXCEPT ![p] = NoResponse]
  /\ UNCHANGED <<categories, tagTables, envVars, chatVars, poolVars>>

\* lines 44-76: the parent of the group is created, or looked up when its name
\* exists; either call may raise. A failed creation skips the group, a failed
\* lookup only leaves parent_map without the entry.
upload_parent_category(p, raises) ==
  /\ cpc[p] = "upload_parent"
  /\ LET run == cop[p]
         parent_name == DEFAULT_CATEGORIES[run.group].name
     IN  IF parent_name \notin run.existing_categories
           THEN IF raises
                  THEN /\ upload_group(p, run, run.group + 1)
                       /\ UNCHANGED categories
                  ELSE /\ Len(categories) < MaxCategories
                       /\ categories' = insert_category(categories,
                                          [name |-> parent_name, is_active |-> TRUE,
                                           parent_category_id |-> 0])
                       /\ upload_sub(p, [run EXCEPT !.parent_map[run.group] =
                                                      Len(categories) + 1], 1)
           ELSE /\ UNCHANGED categories
                /\ IF raises \/ get_category_by_name(parent_name) = {}
                     THEN upload_sub(p, run, 1)
                     ELSE upload_sub(p, [run EXCEPT !.parent_map[run.group] =
                                           CHOOSE i \in get_category_by_name(parent_name) :
                                             \A j \in get_category_by_name(parent_name) : i <= j],
                                     1)
  /\ UNCHANGED <<tagTables, envVars, chatVars, poolVars>>

\* lines 78-101: the subcategory is created under parent_map.get(parent_name),
\* or skipped when its name exists
upload_subcategory(p, raises) ==
  /\ cpc[p] = "upload_sub"
  /\ LET run == cop[p]
         sub_name == DEFAULT_CATEGORIES[run.group].subcategories[run.sub]
         parent_id == run.parent_map[run.group]
     IN  /\ IF sub_name \notin run.existing_categories /\ ~raises
              THEN /\ Len(categories) < MaxCategories
                   /\ categories' = insert_category(categories,
                                      [name |-> sub_name, is_active |-> TRUE,
                                       parent_category_id |-> parent_id])
              ELSE UNCHANGED categories
         /\ upload_sub(p, run, run.sub + 1)
  /\ UNCHANGED <<tagTables, envVars, chatVars, poolVars>>

NextUpload ==
  \/ \E p \in Clients, row \in 1..Len(DEFAULT_CATEGORIES) :
       create_category(p, DEFAULT_CATEGORIES[row].name, 0, TRUE)
  \/ \E p \in Clients : create_category_insert(p)
  \/ \E p \in Clients, id \in CategoryIds : delete_category(p, id)
  \/ \E p \in Clients : upload_hierarchical_categories(p)
  \/ \E p \in Clients, raises \in BOOLEAN : upload_parent_category(p, raises)
  \/ \E p \in Clients, raises \in BOOLEAN : upload_subcategory(p, raises)

SpecUpload == Init /\ [][NextUpload]_vars

\* C25: in a hierarchical upload that is no dry run, every subcategory that is
\* created gets as parent_category_id the id of the parent of its own group,
\* created in this run or found in the store, and no subcategory is created
\* before the id of its parent is known.
C25_SubcategoryUnderParent ==
  [][\A p \in Clients :
       (cpc[p] = "upload_sub" /\ categories' # categories) =>
         LET row == categories'[Len(categories')]
         IN  /\ cop[p].parent_map[cop[p].group] # 0
             /\ row.parent_category_id # 0
             /\ categories'[row.parent_category_id].name =
                  DEFAULT_CATEGORIES[cop[p].group].name]_vars
=============================================================================
